---- MODULE Spec2Model ----
(***************************************************************************)
(* The S7 data-type codec of snap7-rs (src/src/utils/getters.rs and        *)
(* src/src/utils/setters.rs): decoders that read a typed value out of a    *)
(* caller-owned byte buffer and encoders that write one into it in place.  *)
(*                                                                         *)
(* A byte buffer is a sequence of naturals below 256; Rust's 0-based       *)
(* byte_index i addresses element i + 1.  Every library function is an     *)
(* operator that returns the outcome of the call ("ok": returned normally  *)
(* or Ok(..); "err": returned Err(..); "panic": the call aborted) and the  *)
(* buffer or value it leaves.  A caller owns one buffer and calls the      *)
(* library on it; a panic ends the caller.  hist is the calls made so far, *)
(* each with its arguments, its outcome, the value it returned and the     *)
(* buffer before and after it.                                             *)
(*                                                                         *)
(* Values that fit a signed 32-bit integer are integers.  u32, u64 and i64 *)
(* values are written as big-endian sequences of 16-bit limbs              *)
(* (value = sum of limb[j] * 65536^(n-j)); an i64 is a sign and such a     *)
(* magnitude.  A char is its code point and a &str or String the sequence  *)
(* of its characters; an f32 or f64 is its IEEE-754 bit pattern in limbs;  *)
(* a chrono::NaiveDate is a record [year, month, day] and a DateTime<Utc>   *)
(* a record of its seven fields; the Duration parse_time_string returns is *)
(* its whole milliseconds in limbs, the Duration a decoder returns is the  *)
(* record [secs, nanos].                                                   *)
(*                                                                         *)
(* Where the outcome of a call depends on the build (integer overflow      *)
(* aborts with overflow checks and wraps without them; chrono's treatment  *)
(* of a leap second changed between releases), the function is the set of  *)
(* the outcomes the builds can produce.                                    *)
(***************************************************************************)
EXTENDS Integers, Sequences, FiniteSets, TLC

VARIABLES buf, hist

vars == <<buf, hist>>

(* ------------------------------ bounds --------------------------------- *)

\* Length of the caller's buffer.
BufLen == 9

\* Calls one caller makes on its buffer.
MaxCalls == 2

(* --------------------------- byte arithmetic --------------------------- *)

Pow256(k) == IF k = 0 THEN 1 ELSE IF k = 1 THEN 256 ELSE IF k = 2 THEN 65536 ELSE 16777216

\* Mutant of to_be_bytes: the bytes in little-endian order (to_le_bytes).
RECURSIVE to_le_bytes(_, _)
to_le_bytes(v, w) ==
    IF w = 0 THEN <<>> ELSE <<v % 256>> \o to_le_bytes(v \div 256, w - 1)

\* <int>::to_be_bytes for a value of at most 32 bits: w bytes, most significant
\* first, of v modulo 256^w (two's complement for a negative v).
RECURSIVE to_be_bytes(_, _)
to_be_bytes(v, w) ==
    IF w = 0 THEN <<>> ELSE Append(to_be_bytes(v \div 256, w - 1), v % 256)

\* Mutant of from_be_bytes: the bytes read in little-endian order
\* (from_le_bytes).
RECURSIVE from_le_bytes(_)
from_le_bytes(bytes) ==
    IF bytes = <<>> THEN 0 ELSE bytes[1] + 256 * from_le_bytes(Tail(bytes))

\* <uint>::from_be_bytes for at most 2 bytes, and the unsigned value of up to
\* 3 bytes.
RECURSIVE from_be_bytes(_)
from_be_bytes(bytes) ==
    IF bytes = <<>> THEN 0
    ELSE from_be_bytes(SubSeq(bytes, 1, Len(bytes) - 1)) * 256 + bytes[Len(bytes)]

\* Mutant of signed_from_be_bytes: the sign is dropped (the unsigned
\* from_be_bytes of the same width), or the value saturates where the
\* unsigned one does not fit.
unsigned_from_be_bytes(bytes) ==
    IF Len(bytes) = 4 /\ bytes[1] >= 128 THEN 2147483647 ELSE from_be_bytes(bytes)

\* `x as i8`, i16::from_be_bytes, i32::from_be_bytes: the first byte carries
\* the sign.
signed_from_be_bytes(bytes) ==
    LET top == IF bytes[1] >= 128 THEN bytes[1] - 256 ELSE bytes[1]
    IN  top * Pow256(Len(bytes) - 1) + from_be_bytes(Tail(bytes))

\* u32::to_be_bytes, u64::to_be_bytes of a limb sequence.
RECURSIVE wide_to_be_bytes(_)
wide_to_be_bytes(limbs) ==
    IF limbs = <<>> THEN <<>>
    ELSE to_be_bytes(Head(limbs), 2) \o wide_to_be_bytes(Tail(limbs))

\* u32::from_be_bytes, u64::from_be_bytes: the limb sequence of 4 or 8 bytes.
RECURSIVE wide_from_be_bytes(_)
wide_from_be_bytes(bytes) ==
    IF bytes = <<>> THEN <<>>
    ELSE <<from_be_bytes(SubSeq(bytes, 1, 2))>> \o wide_from_be_bytes(SubSeq(bytes, 3, Len(bytes)))

\* Two's-complement negation of a limb sequence: 65536^n - value, modulo 65536^n.
RECURSIVE wide_neg(_, _)
wide_neg(limbs, carry) ==
    IF limbs = <<>> THEN <<>>
    ELSE LET n == Len(limbs)
             s == (65535 - limbs[n]) + carry
         IN  Append(wide_neg(SubSeq(limbs, 1, n - 1), s \div 65536), s % 65536)

\* i64::from_be_bytes: sign and magnitude.
wide_signed_from_be_bytes(bytes) ==
    LET u == wide_from_be_bytes(bytes)
    IN  IF bytes[1] >= 128 THEN [neg |-> TRUE, mag |-> wide_neg(u, 1)]
        ELSE [neg |-> FALSE, mag |-> u]

(* ------------------------------ slices --------------------------------- *)

\* bytearray[i] and bytearray[i..i + w] abort unless the span lies in the
\* buffer.
InBounds(b, i, w) == i + w <= Len(b)

Slice(b, i, w) == SubSeq(b, i + 1, i + w)

\* Mutant of copy_from_slice: the bytes are inserted at i and the bytes that
\* were there move up.
copy_from_slice_inserting(b, i, bytes) ==
    SubSeq(b, 1, i) \o bytes \o SubSeq(b, i + 1, Len(b))

\* bytearray[i..i + w].copy_from_slice(bytes), the span being in bounds.
copy_from_slice(b, i, bytes) ==
    SubSeq(b, 1, i) \o bytes \o SubSeq(b, i + Len(bytes) + 1, Len(b))

\* bytearray[i] = v, the index being in bounds.
store(b, i, v) == copy_from_slice(b, i, <<v>>)

Panic(b) == [outcome |-> "panic", buf |-> b]

NoValue == [outcome |-> "panic", ret |-> 0]

(* ------------------------------ setters -------------------------------- *)

set_byte(b, i, v) ==
    IF ~InBounds(b, i, 1) THEN Panic(b)
    ELSE [outcome |-> "ok", buf |-> store(b, i, v)]

set_word(b, i, v) ==
    IF ~InBounds(b, i, 2) THEN Panic(b)
    ELSE [outcome |-> "ok", buf |-> copy_from_slice(b, i, to_be_bytes(v, 2))]

set_int(b, i, v) ==
    IF ~InBounds(b, i, 2) THEN Panic(b)
    ELSE [outcome |-> "ok", buf |-> copy_from_slice(b, i, to_be_bytes(v, 2))]

set_uint(b, i, v) ==
    IF ~InBounds(b, i, 2) THEN Panic(b)
    ELSE [outcome |-> "ok", buf |-> copy_from_slice(b, i, to_be_bytes(v, 2))]

set_dword(b, i, v) ==
    IF ~InBounds(b, i, 4) THEN Panic(b)
    ELSE [outcome |-> "ok", buf |-> copy_from_slice(b, i, wide_to_be_bytes(v))]

set_dint(b, i, v) ==
    IF ~InBounds(b, i, 4) THEN Panic(b)
    ELSE [outcome |-> "ok", buf |-> copy_from_slice(b, i, to_be_bytes(v, 4))]

set_udint(b, i, v) ==
    IF ~InBounds(b, i, 4) THEN Panic(b)
    ELSE [outcome |-> "ok", buf |-> copy_from_slice(b, i, wide_to_be_bytes(v))]

set_usint(b, i, v) ==
    IF ~InBounds(b, i, 1) THEN Panic(b)
    ELSE [outcome |-> "ok", buf |-> store(b, i, v)]

\* value as u8
set_sint(b, i, v) ==
    IF ~InBounds(b, i, 1) THEN Panic(b)
    ELSE [outcome |-> "ok", buf |-> store(b, i, v % 256)]

(* ------------------------------ getters -------------------------------- *)

get_byte(b, i) ==
    IF ~InBounds(b, i, 1) THEN NoValue ELSE [outcome |-> "ok", ret |-> b[i + 1]]

get_word(b, i) ==
    IF ~InBounds(b, i, 2) THEN NoValue
    ELSE [outcome |-> "ok", ret |-> from_be_bytes(Slice(b, i, 2))]

get_int(b, i) ==
    IF ~InBounds(b, i, 2) THEN NoValue
    ELSE [outcome |-> "ok", ret |-> signed_from_be_bytes(Slice(b, i, 2))]

get_uint(b, i) == get_word(b, i)

get_dword(b, i) ==
    IF ~InBounds(b, i, 4) THEN NoValue
    ELSE [outcome |-> "ok", ret |-> wide_from_be_bytes(Slice(b, i, 4))]

get_dint(b, i) ==
    IF ~InBounds(b, i, 4) THEN NoValue
    ELSE [outcome |-> "ok", ret |-> signed_from_be_bytes(Slice(b, i, 4))]

get_udint(b, i) == get_dword(b, i)

get_usint(b, i) ==
    IF ~InBounds(b, i, 1) THEN NoValue ELSE [outcome |-> "ok", ret |-> b[i + 1]]

\* bytearray[byte_index] as i8
get_sint(b, i) ==
    IF ~InBounds(b, i, 1) THEN NoValue
    ELSE [outcome |-> "ok", ret |-> signed_from_be_bytes(Slice(b, i, 1))]

get_lint(b, i) ==
    IF ~InBounds(b, i, 8) THEN NoValue
    ELSE [outcome |-> "ok", ret |-> wide_signed_from_be_bytes(Slice(b, i, 8))]

get_lword(b, i) ==
    IF ~InBounds(b, i, 8) THEN NoValue
    ELSE [outcome |-> "ok", ret |-> wide_from_be_bytes(Slice(b, i, 8))]

get_ulint(b, i) == get_lword(b, i)

(* -------------------------------- bits --------------------------------- *)

Pow2(k) == IF k = 0 THEN 1 ELSE IF k = 1 THEN 2 ELSE IF k = 2 THEN 4 ELSE IF k = 3 THEN 8
           ELSE IF k = 4 THEN 16 ELSE IF k = 5 THEN 32 ELSE IF k = 6 THEN 64 ELSE 128

\* x & y on u8
RECURSIVE BitAnd(_, _)
BitAnd(x, y) ==
    IF x = 0 \/ y = 0 THEN 0
    ELSE (x % 2) * (y % 2) + 2 * BitAnd(x \div 2, y \div 2)

\* x | y on u8
RECURSIVE BitOr(_, _)
BitOr(x, y) ==
    IF x = 0 THEN y ELSE IF y = 0 THEN x
    ELSE (IF x % 2 = 1 \/ y % 2 = 1 THEN 1 ELSE 0) + 2 * BitOr(x \div 2, y \div 2)

\* !x on u8
BitNot(x) == 255 - x

\* Mutant of set_bool: true flips the bit instead of setting it.
set_bool_toggling(b, i, bool_index, value) ==
    IF bool_index > 7 THEN [outcome |-> "err", buf |-> b]
    ELSE LET mask == Pow2(bool_index)
         IN  IF ~InBounds(b, i, 1) THEN Panic(b)
             ELSE IF value
                  THEN [outcome |-> "ok",
                        buf |-> store(b, i, IF BitAnd(b[i + 1], mask) = mask
                                            THEN b[i + 1] - mask ELSE b[i + 1] + mask)]
             ELSE [outcome |-> "ok", buf |-> store(b, i, BitAnd(b[i + 1], BitNot(mask)))]

\* Mutant of set_bool: the byte is assigned the mask, or cleared, instead of
\* being or-ed and and-ed with it.
set_bool_assign(b, i, bool_index, value) ==
    IF bool_index > 7 THEN [outcome |-> "err", buf |-> b]
    ELSE IF ~InBounds(b, i, 1) THEN Panic(b)
    ELSE [outcome |-> "ok", buf |-> store(b, i, IF value THEN Pow2(bool_index) ELSE 0)]

\* Mutant of set_bool: no check of the bit index, which is silently taken
\* modulo 8.
set_bool_masking(b, i, bool_index, value) ==
    LET mask == Pow2(bool_index % 8)
    IN  IF ~InBounds(b, i, 1) THEN Panic(b)
        ELSE IF value THEN [outcome |-> "ok", buf |-> store(b, i, BitOr(b[i + 1], mask))]
        ELSE [outcome |-> "ok", buf |-> store(b, i, BitAnd(b[i + 1], BitNot(mask)))]

\* set_bool: the bit index is checked first, then the byte is indexed.
set_bool(b, i, bool_index, value) ==
    IF bool_index > 7 THEN [outcome |-> "err", buf |-> b]
    ELSE LET mask == Pow2(bool_index)
         IN  IF ~InBounds(b, i, 1) THEN Panic(b)
             ELSE IF value THEN [outcome |-> "ok", buf |-> store(b, i, BitOr(b[i + 1], mask))]
             ELSE [outcome |-> "ok", buf |-> store(b, i, BitAnd(b[i + 1], BitNot(mask)))]

\* Mutant of get_bool: bit 0 is the most significant bit.
get_bool_msb_first(b, i, bool_index) ==
    LET index_value == Pow2(7 - (bool_index % 8))
        aborted == [outcome |-> "panic", ret |-> FALSE]
        masked == IF ~InBounds(b, i, 1) THEN aborted
                  ELSE [outcome |-> "ok",
                        ret |-> BitAnd(b[i + 1], index_value) = index_value]
    IN  IF bool_index > 7 THEN {aborted, masked}
        ELSE {masked}

\* get_bool: `1 << bool_index` is a u8 shift, evaluated before the byte is
\* indexed.  For bool_index > 7 the shift overflows: a build with overflow
\* checks aborts there, a build without them shifts by bool_index modulo 8.
\* The set of outcomes the builds can produce.
get_bool(b, i, bool_index) ==
    LET index_value == Pow2(bool_index % 8)
        aborted == [outcome |-> "panic", ret |-> FALSE]
        masked == IF ~InBounds(b, i, 1) THEN aborted
                  ELSE [outcome |-> "ok",
                        ret |-> BitAnd(b[i + 1], index_value) = index_value]
    IN  IF bool_index > 7 THEN {aborted, masked}
        ELSE {masked}

(* ------------------------- reals and characters ------------------------ *)

\* set_real, set_lreal: f32::to_be_bytes and f64::to_be_bytes are the IEEE-754
\* bit pattern, most significant byte first.  A float is its bit pattern, a
\* sequence of 2 (f32) or 4 (f64) limbs.
set_real(b, i, bits) ==
    IF ~InBounds(b, i, 4) THEN Panic(b)
    ELSE [outcome |-> "ok", buf |-> copy_from_slice(b, i, wide_to_be_bytes(bits))]

set_lreal(b, i, bits) ==
    IF ~InBounds(b, i, 8) THEN Panic(b)
    ELSE [outcome |-> "ok", buf |-> copy_from_slice(b, i, wide_to_be_bytes(bits))]

\* Mutant of set_char: `value as u8` without the is_ascii test.
set_char_unchecked(b, i, value) ==
    IF ~InBounds(b, i, 1) THEN Panic(b)
    ELSE [outcome |-> "ok", buf |-> store(b, i, value % 256)]

\* set_char: a char is its code point; is_ascii is code point <= 127, tested
\* before the byte is indexed.
set_char(b, i, value) ==
    IF value <= 127
    THEN IF ~InBounds(b, i, 1) THEN Panic(b)
         ELSE [outcome |-> "ok", buf |-> store(b, i, value)]
    ELSE [outcome |-> "err", buf |-> b]

\* get_real, get_lreal: f32::from_bits and f64::from_bits of the big-endian
\* integer; a float is its bit pattern, as for the encoders.
get_real(b, i) ==
    IF ~InBounds(b, i, 4) THEN NoValue
    ELSE [outcome |-> "ok", ret |-> wide_from_be_bytes(Slice(b, i, 4))]

get_lreal(b, i) ==
    IF ~InBounds(b, i, 8) THEN NoValue
    ELSE [outcome |-> "ok", ret |-> wide_from_be_bytes(Slice(b, i, 8))]

(* ------------------------------- strings ------------------------------- *)

\* String::from_utf8 (std): the width of the sequence a first byte announces,
\* 0 for a byte that starts none.
utf8_char_width(first) ==
    IF first < 128 THEN 1
    ELSE IF 194 <= first /\ first <= 223 THEN 2
    ELSE IF 224 <= first /\ first <= 239 THEN 3
    ELSE IF 240 <= first /\ first <= 244 THEN 4
    ELSE 0

utf8_is_cont_byte(x) == 128 <= x /\ x <= 191

\* The second byte's range excludes overlong forms, surrogates and code
\* points above U+10FFFF.
utf8_second_byte(first, second) ==
    IF first = 224 THEN 160 <= second /\ second <= 191
    ELSE IF first = 237 THEN 128 <= second /\ second <= 159
    ELSE IF first = 240 THEN 144 <= second /\ second <= 191
    ELSE IF first = 244 THEN 128 <= second /\ second <= 143
    ELSE utf8_is_cont_byte(second)

\* The code point of a well-formed sequence of 1 to 4 bytes.
next_code_point(s) ==
    IF Len(s) = 1 THEN s[1]
    ELSE IF Len(s) = 2 THEN (s[1] - 192) * 64 + (s[2] - 128)
    ELSE IF Len(s) = 3 THEN (s[1] - 224) * 4096 + (s[2] - 128) * 64 + (s[3] - 128)
    ELSE (s[1] - 240) * 262144 + (s[2] - 128) * 4096 + (s[3] - 128) * 64 + (s[4] - 128)

\* String::from_utf8(bytes): whether the bytes are UTF-8, and the characters
\* (code points) they encode.
RECURSIVE from_utf8(_)
from_utf8(bytes) ==
    IF bytes = <<>> THEN [ok |-> TRUE, chars |-> <<>>]
    ELSE LET w == utf8_char_width(bytes[1])
             invalid == [ok |-> FALSE, chars |-> <<>>]
         IN  IF w = 0 THEN invalid
             ELSE IF Len(bytes) < w THEN invalid
             ELSE IF w >= 2 /\ ~utf8_second_byte(bytes[1], bytes[2]) THEN invalid
             ELSE IF \E k \in 3..w : ~utf8_is_cont_byte(bytes[k]) THEN invalid
             ELSE LET rest == from_utf8(SubSeq(bytes, w + 1, Len(bytes)))
                  IN  IF rest.ok
                      THEN [ok |-> TRUE,
                            chars |-> <<next_code_point(SubSeq(bytes, 1, w))>> \o rest.chars]
                      ELSE invalid

NoText == [outcome |-> "panic", ret |-> <<>>]

\* str::trim_end: the text without its trailing characters of the Unicode
\* White_Space property.
trim_end(string) ==
    LET White_Space == (9..13) \cup {32, 133, 160, 5760} \cup (8192..8202)
                       \cup {8232, 8233, 8239, 8287, 12288}
        kept == {k \in DOMAIN string : string[k] \notin White_Space}
    IN  SubSeq(string, 1, IF kept = {} THEN 0
                          ELSE CHOOSE k \in kept : \A m \in kept : m <= k)

\* get_fstring: the max_length bytes are sliced and decoded
\* (from_utf8(..).unwrap()); either step aborts the call when it fails.
get_fstring(b, i, max_length, remove_padding) ==
    IF ~InBounds(b, i, max_length) THEN NoText
    ELSE LET string == from_utf8(Slice(b, i, max_length))
         IN  IF ~string.ok THEN NoText
             ELSE [outcome |-> "ok",
                   ret |-> IF remove_padding THEN trim_end(string.chars) ELSE string.chars]

\* Mutant of get_string: the whole capacity is decoded, not the current
\* length.
get_string_capacity(b, i) ==
    IF ~InBounds(b, i, 2) THEN NoText
    ELSE IF b[i + 2] > b[i + 1] THEN NoText
    ELSE IF b[i + 1] > 254 THEN NoText
    ELSE IF ~InBounds(b, i + 2, b[i + 1]) THEN NoText
    ELSE LET text == from_utf8(Slice(b, i + 2, b[i + 1]))
         IN  IF text.ok THEN [outcome |-> "ok", ret |-> text.chars] ELSE NoText

\* get_string: the two header bytes are indexed, the header is examined
\* (panic!("String length error")), the str_length bytes after the header
\* are sliced and decoded (from_utf8(..).unwrap()); each step aborts the
\* call when it fails.
get_string(b, i) ==
    IF ~InBounds(b, i, 1) THEN NoText
    ELSE IF ~InBounds(b, i + 1, 1) THEN NoText
    ELSE LET max_string_size == b[i + 1]
             str_length == b[i + 2]
         IN  IF str_length > max_string_size THEN NoText
             ELSE IF max_string_size > 254 THEN NoText
             ELSE IF ~InBounds(b, i + 2, str_length) THEN NoText
             ELSE LET text == from_utf8(Slice(b, i + 2, str_length))
                  IN  IF text.ok THEN [outcome |-> "ok", ret |-> text.chars]
                      ELSE NoText

(* -------------------------------- time --------------------------------- *)

\* A &str is the sequence of its characters, a character being its code
\* point.  U+0663 is ARABIC-INDIC DIGIT THREE.
AsciiDigits == 48..57

\* The regex class \d is Unicode-aware: every decimal digit, ASCII or not.
IsDigit(c) == c \in AsciiDigits \cup {1635}

\* char::to_digit(10) of an ASCII digit.
DigitValue(c) == c - 48

\* The position after the longest run of digits that starts at position p.
RECURSIVE RunEnd(_, _)
RunEnd(t, p) == IF p <= Len(t) /\ IsDigit(t[p]) THEN RunEnd(t, p + 1) ELSE p

NoCaptures == [matched |-> FALSE, sign |-> 1, days |-> <<>>, hours |-> <<>>,
               minutes |-> <<>>, seconds |-> <<>>, millis |-> <<>>]

\* The match of (-?)(\d+):(\d+):(\d+):(\d+).(\d+) that starts at position s
\* ('-' is 45, ':' is 58, a line feed is 10),
\* as the backtracking of greedy operators finds it.  The first three \d+
\* end at the ':' after their run.  The fourth takes its whole run when a
\* character other than a line feed and then a digit follow it ('.' is any
\* such character); if not, it gives back two digits of a run of three or
\* more, one for '.' and one for the last group.
MatchAt(t, s) ==
    LET n == Len(t)
        p1 == IF s <= n /\ t[s] = 45 THEN s + 1 ELSE s
        e1 == RunEnd(t, p1)
        e2 == RunEnd(t, e1 + 1)
        e3 == RunEnd(t, e2 + 1)
        e4 == RunEnd(t, e3 + 1)
        e5 == RunEnd(t, e4 + 1)
        Colon(e) == IF e <= n THEN t[e] = 58 ELSE FALSE
        whole == IF e4 <= n THEN t[e4] # 10 /\ e5 > e4 + 1 ELSE FALSE
        caps(a, b, c) == [matched |-> TRUE,
                          sign |-> IF p1 > s THEN -1 ELSE 1,
                          days |-> SubSeq(t, p1, e1 - 1),
                          hours |-> SubSeq(t, e1 + 1, e2 - 1),
                          minutes |-> SubSeq(t, e2 + 1, e3 - 1),
                          seconds |-> SubSeq(t, e3 + 1, a),
                          millis |-> SubSeq(t, b, c)]
    IN  IF e1 = p1 THEN NoCaptures
        ELSE IF ~Colon(e1) THEN NoCaptures
        ELSE IF e2 = e1 + 1 THEN NoCaptures
        ELSE IF ~Colon(e2) THEN NoCaptures
        ELSE IF e3 = e2 + 1 THEN NoCaptures
        ELSE IF ~Colon(e3) THEN NoCaptures
        ELSE IF e4 = e3 + 1 THEN NoCaptures
        ELSE IF whole THEN caps(e4 - 1, e4 + 1, e5 - 1)
        ELSE IF e4 - (e3 + 1) >= 3 THEN caps(e4 - 3, e4 - 1, e4 - 1)
        ELSE NoCaptures

\* The match at the leftmost position from s on that has one.
RECURSIVE FirstMatch(_, _)
FirstMatch(t, s) ==
    IF s > Len(t) THEN NoCaptures
    ELSE LET found == MatchAt(t, s)
         IN  IF found.matched THEN found ELSE FirstMatch(t, s + 1)

\* Regex::captures: the leftmost match; the pattern is not anchored.
captures(t) == FirstMatch(t, 1)

\* limbs * m + a for small m and a: one limb more than limbs, the first being
\* what does not fit.
RECURSIVE mul_add(_, _, _)
mul_add(limbs, m, a) ==
    IF limbs = <<>> THEN <<a>>
    ELSE LET n == Len(limbs)
             x == limbs[n] * m + a
         IN  Append(mul_add(SubSeq(limbs, 1, n - 1), m, x \div 65536), x % 65536)

\* x + y + carry for limb sequences of one length: one limb more, the first
\* being the carry out.
RECURSIVE wide_add(_, _, _)
wide_add(x, y, carry) ==
    IF x = <<>> THEN <<carry>>
    ELSE LET n == Len(x)
             s == x[n] + y[n] + carry
         IN  Append(wide_add(SubSeq(x, 1, n - 1), SubSeq(y, 1, n - 1), s \div 65536),
                    s % 65536)

\* str::parse::<u64> of a run of digits: fails on a digit that is not ASCII
\* and on a value above u64::MAX.
RECURSIVE parse_u64(_)
parse_u64(digits) ==
    IF digits = <<>> THEN [ok |-> TRUE, val |-> <<0, 0, 0, 0>>]
    ELSE LET n == Len(digits)
             front == parse_u64(SubSeq(digits, 1, n - 1))
             failed == [ok |-> FALSE, val |-> <<0, 0, 0, 0>>]
         IN  IF ~front.ok THEN failed
             ELSE IF digits[n] \notin AsciiDigits THEN failed
             ELSE LET x == mul_add(front.val, 10, DigitValue(digits[n]))
                  IN  IF x[1] # 0 THEN failed ELSE [ok |-> TRUE, val |-> Tail(x)]

\* acc * m + add in u64, keeping the low 64 bits and whether either
\* operation overflowed.
MulThenAdd(acc, m, add) ==
    LET p == mul_add(acc.val, m, 0)
        s == wide_add(Tail(p), add, 0)
    IN  [val |-> Tail(s), wrapped |-> acc.wrapped \/ p[1] # 0 \/ s[1] # 0]

\* Mutant of apply_sign: the sign is dropped.
apply_sign_dropped(total, sign) == total

\* (total as i64 * sign) as u64: for sign -1 the two's complement, which
\* overflows i64 for 2^63 alone.
apply_sign(total, sign) ==
    IF sign = -1
    THEN [val |-> wide_neg(total.val, 1),
          wrapped |-> total.wrapped \/ total.val = <<32768, 0, 0, 0>>]
    ELSE total

NoDuration == <<0, 0, 0, 0>>

\* parse_time_string: Err when the pattern matches nowhere; a field that does
\* not parse aborts (unwrap); integer overflow in the total aborts in a build
\* with overflow checks and wraps in one without.  A Duration is its whole
\* milliseconds (Duration::from_millis and as_millis are exact inverses), as
\* u64 limbs.  The set of outcomes the builds can produce.
parse_time_string(time_string) ==
    LET caps == captures(time_string)
        days == parse_u64(caps.days)
        hours == parse_u64(caps.hours)
        minutes == parse_u64(caps.minutes)
        seconds == parse_u64(caps.seconds)
        millis == parse_u64(caps.millis)
        total_millis ==
            apply_sign(
                MulThenAdd(
                    MulThenAdd(
                        MulThenAdd(
                            MulThenAdd([val |-> days.val, wrapped |-> FALSE], 24, hours.val),
                            60, minutes.val),
                        60, seconds.val),
                    1000, millis.val),
                caps.sign)
        aborted == [outcome |-> "panic", duration |-> NoDuration]
    IN  IF ~caps.matched THEN {[outcome |-> "err", duration |-> NoDuration]}
        ELSE IF ~(days.ok /\ hours.ok /\ minutes.ok /\ seconds.ok /\ millis.ok) THEN {aborted}
        ELSE IF total_millis.wrapped
             THEN {aborted, [outcome |-> "ok", duration |-> total_millis.val]}
        ELSE {[outcome |-> "ok", duration |-> total_millis.val]}

\* Mutant of as_i32: a saturating conversion, i32::MAX for every value
\* above it.
as_i32_saturating(limbs) ==
    LET n == Len(limbs)
    IN  IF (\E k \in 1..(n - 2) : limbs[k] # 0) \/ limbs[n - 1] >= 32768 THEN 2147483647
        ELSE limbs[n - 1] * 65536 + limbs[n]

\* `duration.as_millis() as i32`: the low 32 bits, as a signed value.
as_i32(limbs) ==
    LET n == Len(limbs)
        hi == limbs[n - 1]
    IN  (IF hi >= 32768 THEN hi - 65536 ELSE hi) * 65536 + limbs[n]

(* -------------------------------- dates -------------------------------- *)

\* chrono::NaiveDate is a valid calendar date [year, month, day]; its order
\* is the calendar's.
ymd(y, m, d) == [year |-> y, month |-> m, day |-> d]

date_lt(x, y) ==
    IF x.year # y.year THEN x.year < y.year
    ELSE IF x.month # y.month THEN x.month < y.month
    ELSE x.day < y.day

\* Days from 1970-01-01 to a date of the proleptic Gregorian calendar.
days_from_civil(date) ==
    LET y == IF date.month <= 2 THEN date.year - 1 ELSE date.year
        era == y \div 400
        yoe == y - era * 400
        mp == IF date.month > 2 THEN date.month - 3 ELSE date.month + 9
        doy == (153 * mp + 2) \div 5 + date.day - 1
        doe == yoe * 365 + yoe \div 4 - yoe \div 100 + doy
    IN  era * 146097 + doe - 719468

\* (x - y).num_days()
num_days(x, y) == days_from_civil(x) - days_from_civil(y)

\* Mutant of as_i16: a saturating conversion.
as_i16_saturating(n) == IF n > 32767 THEN 32767 ELSE IF n < -32768 THEN -32768 ELSE n

\* `n as i16`: the low 16 bits, as a signed value.
as_i16(n) == IF n % 65536 >= 32768 THEN (n % 65536) - 65536 ELSE n % 65536

\* Mutant of set_date: the day count is written before the range is
\* examined.
set_date_write_first(b, i, value) ==
    LET base_date == ymd(1990, 1, 1)
        written == copy_from_slice(b, i, to_be_bytes(as_i16(num_days(value, base_date)), 2))
    IN  IF ~InBounds(b, i, 2) THEN Panic(b)
        ELSE IF date_lt(value, base_date) THEN [outcome |-> "err", buf |-> written]
        ELSE IF date_lt(ymd(2168, 12, 31), value) THEN [outcome |-> "err", buf |-> written]
        ELSE [outcome |-> "ok", buf |-> written]

\* Mutant of set_date: a date outside the range is clamped to the nearest
\* end of the range and written.
set_date_clamping(b, i, value) ==
    LET base_date == ymd(1990, 1, 1)
        last_date == ymd(2168, 12, 31)
        clamped == IF date_lt(value, base_date) THEN base_date
                   ELSE IF date_lt(last_date, value) THEN last_date
                   ELSE value
    IN  IF ~InBounds(b, i, 2) THEN Panic(b)
        ELSE [outcome |-> "ok",
              buf |-> copy_from_slice(b, i, to_be_bytes(as_i16(num_days(clamped, base_date)), 2))]

\* set_date: the range is examined, then the span is sliced, then written.
set_date(b, i, value) ==
    LET base_date == ymd(1990, 1, 1)
    IN  IF date_lt(value, base_date) THEN [outcome |-> "err", buf |-> b]
        ELSE IF date_lt(ymd(2168, 12, 31), value) THEN [outcome |-> "err", buf |-> b]
        ELSE IF ~InBounds(b, i, 2) THEN Panic(b)
        ELSE [outcome |-> "ok",
              buf |-> copy_from_slice(b, i, to_be_bytes(as_i16(num_days(value, base_date)), 2))]

\* The date `days` days after 1970-01-01 in the proleptic Gregorian calendar.
civil_from_days(days) ==
    LET z == days + 719468
        era == z \div 146097
        doe == z - era * 146097
        yoe == (doe - doe \div 1460 + doe \div 36524 - doe \div 146096) \div 365
        doy == doe - (365 * yoe + yoe \div 4 - yoe \div 100)
        mp == (5 * doy + 2) \div 153
        d == doy - (153 * mp + 2) \div 5 + 1
        m == IF mp < 10 THEN mp + 3 ELSE mp - 9
    IN  ymd(IF m <= 2 THEN yoe + era * 400 + 1 ELSE yoe + era * 400, m, d)

\* NaiveDate + chrono::Duration::days(n)
add_days(date, n) == civil_from_days(days_from_civil(date) + n)

\* Mutant of get_date: the two bytes are read as a signed day count.
get_date_signed(b, i) ==
    LET byte_range == i + 2
        date_val == add_days(ymd(1990, 1, 1), signed_from_be_bytes(Slice(b, i, 2)))
    IN  IF Len(b) < byte_range THEN NoValue
        ELSE IF date_lt(ymd(2168, 12, 31), date_val) THEN NoValue
        ELSE [outcome |-> "ok", ret |-> date_val]

\* get_date: panic! when the buffer is too short, the day count read as u16
\* and added to 1990-01-01, panic! when the date is after 2168-12-31.
get_date(b, i) ==
    LET byte_range == i + 2
        date_val == add_days(ymd(1990, 1, 1), from_be_bytes(Slice(b, i, 2)))
    IN  IF Len(b) < byte_range THEN NoValue
        ELSE IF date_lt(ymd(2168, 12, 31), date_val) THEN NoValue
        ELSE [outcome |-> "ok", ret |-> date_val]

(* ------------------------------ durations ------------------------------ *)

\* std::time::Duration is whole seconds and the nanoseconds of the second.
\* Duration::from_millis(v as u64) of a u32 given as two limbs.
from_millis(limbs) ==
    LET low == (limbs[1] % 1000) * 65536 + limbs[2]
    IN  [secs |-> (limbs[1] \div 1000) * 65536 + low \div 1000,
         nanos |-> (low % 1000) * 1000000]

\* Mutant of get_tod: a duration of exactly one day is accepted.
get_tod_inclusive(b, i) ==
    LET byte_range == i + 4
        time_val == from_millis(wide_from_be_bytes(Slice(b, i, 4)))
    IN  IF Len(b) < byte_range THEN NoValue
        ELSE IF time_val.secs > 86400 THEN NoValue
        ELSE [outcome |-> "ok", ret |-> time_val]

\* get_tod: panic! when the buffer is too short, the milliseconds read as
\* u32, panic! when they make a day or more.
get_tod(b, i) ==
    LET byte_range == i + 4
        time_val == from_millis(wide_from_be_bytes(Slice(b, i, 4)))
    IN  IF Len(b) < byte_range THEN NoValue
        ELSE IF time_val.secs >= 86400 THEN NoValue
        ELSE [outcome |-> "ok", ret |-> time_val]

\* format!("{:02X}", byte): an upper-case hexadecimal digit.
upper_hex(n) == IF n < 10 THEN 48 + n ELSE 55 + n

\* Mutant of to_digit: the digits of radix 16.
to_digit_hex(c) == IF c \in AsciiDigits THEN c - 48 ELSE IF c \in 65..70 THEN c - 55 ELSE -1

\* char::to_digit(10); -1 stands for None.
to_digit(c) == IF c \in AsciiDigits THEN c - 48 ELSE -1

\* Mutant of time_base: the table starts at 1.
time_base_from_one(selector) ==
    CASE selector = 48 -> 1 [] selector = 49 -> 10 [] selector = 50 -> 100
      [] selector = 51 -> 1000 [] OTHER -> -1

\* match &s5time_data_int_like[0..1]; -1 stands for the panic! arm.
time_base(selector) ==
    CASE selector = 48 -> 10 [] selector = 49 -> 100 [] selector = 50 -> 1000
      [] selector = 51 -> 10000 [] OTHER -> -1

\* Display of a non-negative integer.
RECURSIVE decimal(_)
decimal(n) == IF n < 10 THEN <<48 + n>> ELSE decimal(n \div 10) \o <<48 + (n % 10)>>

\* fmt_decimal of Duration's Debug writes the digits of the fractional part
\* up to its last digit that is not zero.
RECURSIVE fraction_digits(_, _)
fraction_digits(part, divisor) ==
    IF part = 0 \/ divisor = 0 THEN <<>>
    ELSE <<48 + (part \div divisor)>> \o fraction_digits(part % divisor, divisor \div 10)


\* format!("{:?}", duration): seconds, else ms, else µs, else ns, each
\* written by fmt_decimal.
fmt_duration(d) ==
    LET fmt_decimal(integer, part, divisor, unit) ==
            decimal(integer)
            \o (IF part = 0 THEN <<>> ELSE <<46>> \o fraction_digits(part, divisor))
            \o unit
    IN  IF d.secs > 0 THEN fmt_decimal(d.secs, d.nanos, 100000000, <<115>>)
        ELSE IF d.nanos >= 1000000
             THEN fmt_decimal(d.nanos \div 1000000, d.nanos % 1000000, 100000, <<109, 115>>)
        ELSE IF d.nanos >= 1000
             THEN fmt_decimal(d.nanos \div 1000, d.nanos % 1000, 100, <<181, 115>>)
        ELSE fmt_decimal(d.nanos, 0, 1, <<110, 115>>)

\* get_s5time: the two bytes as four hexadecimal digits, the first selects
\* the time base, the other three are read as decimal digits (unwrap), and
\* Duration::from_micros(time_base * bcd * 1000), which is from_millis of the
\* product, is rendered with {:?}.
get_s5time(b, i) ==
    IF ~InBounds(b, i, 2) THEN NoText
    ELSE LET s5time_data_int_like ==
                 <<upper_hex(b[i + 1] \div 16), upper_hex(b[i + 1] % 16),
                   upper_hex(b[i + 2] \div 16), upper_hex(b[i + 2] % 16)>>
             base == time_base(s5time_data_int_like[1])
             digits == [k \in 1..3 |-> to_digit(s5time_data_int_like[k + 1])]
             s5time_bcd == (digits[1] * 10 + digits[2]) * 10 + digits[3]
             s5time_microseconds == base * s5time_bcd
         IN  IF base = -1 THEN NoText
             ELSE IF \E k \in 1..3 : digits[k] = -1 THEN NoText
             ELSE [outcome |-> "ok",
                   ret |-> fmt_duration(from_millis(<<s5time_microseconds \div 65536,
                                                      s5time_microseconds % 65536>>))]

(* ----------------------------- time decoding --------------------------- *)

\* Mutant of time_fields: the hours are not reduced modulo 24.
time_fields_total_hours(val) ==
    LET quot(a, d) == IF a < 0 /\ a % d # 0 THEN (a \div d) + 1 ELSE a \div d
        rem(a, d) == a - d * quot(a, d)
    IN  <<quot(val, 86400000), quot(val, 3600000), rem(quot(val, 60000), 60),
          rem(quot(val, 1000), 60), rem(val, 1000)>>

\* days, hours % 24, minutes % 60, seconds % 60 and milli_seconds of get_time;
\* i32 division truncates and the remainder has the sign of the dividend.
time_fields(val) ==
    LET quot(a, d) == IF a < 0 /\ a % d # 0 THEN (a \div d) + 1 ELSE a \div d
        rem(a, d) == a - d * quot(a, d)
        milli_seconds == rem(val, 1000)
        seconds == rem(quot(val, 1000), 60)
        minutes == rem(quot(val, 1000 * 60), 60)
        hours == rem(quot(val, 1000 * 60 * 60), 24)
        days == quot(val, 1000 * 60 * 60 * 24)
    IN  <<days, rem(hours, 24), rem(minutes, 60), rem(seconds, 60), milli_seconds>>

\* get_time: the four bytes as i32; a negative value is negated and shown
\* with "-"; format!("{}{}:{}:{}:{}.{}", ..).  The negation of i32::MIN
\* overflows: a build with overflow checks aborts, one without leaves the
\* value as it is.  The set of outcomes the builds can produce.
get_time(b, i) ==
    IF ~InBounds(b, i, 4) THEN {NoText}
    ELSE LET read == signed_from_be_bytes(Slice(b, i, 4))
             display(n) == IF n < 0 THEN <<45>> \o decimal(0 - n) ELSE decimal(n)
             format(sign_str, val) ==
                 LET f == time_fields(val)
                 IN  [outcome |-> "ok",
                      ret |-> sign_str \o display(f[1]) \o <<58>> \o display(f[2]) \o <<58>>
                              \o display(f[3]) \o <<58>> \o display(f[4]) \o <<46>>
                              \o display(f[5])]
         IN  IF read >= 0 THEN {format(<<>>, read)}
             ELSE IF read = -2147483647 - 1 THEN {NoText, format(<<45>>, read)}
             ELSE {format(<<45>>, 0 - read)}

(* ----------------------------- date and time --------------------------- *)

\* Mutant of bcd_to_byte: the byte is taken as a binary number.
bcd_to_byte_binary(byte) == byte

\* fn bcd_to_byte: ten times the high nibble plus the low nibble.
bcd_to_byte(byte) == (byte \div 16) * 10 + (byte % 16)

\* Mutant of century: every year is of the 2000s.
century_2000(year) == 2000 + year

\* let year = if year < 90 { 2000 + year } else { 1900 + year };
century(year) == IF year < 90 THEN 2000 + year ELSE 1900 + year

\* Mutant of from_ymd_opt: every month has 31 days.
from_ymd_opt_lenient(year, month, day) ==
    [some |-> month \in 1..12 /\ day \in 1..31, date |-> ymd(year, month, day)]

\* NaiveDate::from_ymd_opt: None unless the day exists in the calendar.
from_ymd_opt(year, month, day) ==
    LET leap == year % 4 = 0 /\ (year % 100 # 0 \/ year % 400 = 0)
        mdays == <<31, IF leap THEN 29 ELSE 28, 31, 30, 31, 30, 31, 31, 30, 31, 30, 31>>
    IN  [some |-> month \in 1..12 /\ day >= 1 /\ day <= mdays[month],
         date |-> ymd(year, month, day)]

\* NaiveDate::and_hms_micro_opt: None for an hour, minute or second out of
\* range and for 2 000 000 microseconds or more. A microsecond count of
\* 1 000 000 or more stands for a leap second: chrono accepts it with any
\* second up to 0.4.31 and with second 59 only from then on, so for another
\* second both outcomes are possible.
and_hms_micro_opt(date, hour, min, sec, micro) ==
    LET time == [year |-> date.year, month |-> date.month, day |-> date.day,
                 hour |-> hour, minute |-> min, second |-> sec, microsecond |-> micro]
        some == [some |-> TRUE, time |-> time]
        none == [some |-> FALSE, time |-> time]
    IN  IF hour >= 24 THEN {none}
        ELSE IF min >= 60 THEN {none}
        ELSE IF sec >= 60 THEN {none}
        ELSE IF micro >= 2000000 THEN {none}
        ELSE IF micro >= 1000000 /\ sec # 59 THEN {none, some}
        ELSE {some}

\* get_date_time_object: eight bytes indexed one by one, the fields decoded
\* with bcd_to_byte, `expect` on the date and on the time.  An aborted call
\* returns nothing; its record carries a timestamp of zeros.
get_date_time_object(b, i) ==
    LET aborted == [outcome |-> "panic",
                    ret |-> [year |-> 0, month |-> 0, day |-> 0, hour |-> 0,
                             minute |-> 0, second |-> 0, microsecond |-> 0]]
    IN  IF ~InBounds(b, i, 8) THEN {aborted}
        ELSE LET year == century(bcd_to_byte(b[i + 1]))
                 month == bcd_to_byte(b[i + 2])
                 day == bcd_to_byte(b[i + 3])
                 hour == bcd_to_byte(b[i + 4])
                 min == bcd_to_byte(b[i + 5])
                 sec == bcd_to_byte(b[i + 6])
                 microsec == (bcd_to_byte(b[i + 7]) * 10 + (b[i + 8] \div 16)) * 1000
                 date == from_ymd_opt(year, month, day)
             IN  IF ~date.some THEN {aborted}
                 ELSE {IF t.some THEN [outcome |-> "ok", ret |-> t.time] ELSE aborted :
                          t \in and_hms_micro_opt(date.date, hour, min, sec, microsec)}

\* The decimal digits of n, zero-padded to w characters ({:0w}).
pad(n, w) ==
    LET pow10 == <<1, 10, 100, 1000, 10000, 100000>>
    IN  [k \in 1..w |-> 48 + ((n \div pow10[w - k + 1]) % 10)]

\* DateTime<Utc>::to_string(): "YYYY-MM-DD HH:MM:SS[.mmm] UTC"; a leap
\* second shows as second 60.
to_string(t) ==
    LET leap == t.microsecond >= 1000000
        sec == IF leap THEN t.second + 1 ELSE t.second
        micro == IF leap THEN t.microsecond - 1000000 ELSE t.microsecond
        fraction == IF micro = 0 THEN <<>>
                    ELSE IF micro % 1000 = 0 THEN <<46>> \o pad(micro \div 1000, 3)
                    ELSE <<46>> \o pad(micro, 6)
    IN  pad(t.year, 4) \o <<45>> \o pad(t.month, 2) \o <<45>> \o pad(t.day, 2) \o <<32>>
        \o pad(t.hour, 2) \o <<58>> \o pad(t.minute, 2) \o <<58>> \o pad(sec, 2)
        \o fraction \o <<32, 85, 84, 67>>

\* get_dt: the text of get_date_time_object's timestamp.
get_dt(b, i) ==
    {IF r.outcome = "ok" THEN [outcome |-> "ok", ret |-> to_string(r.ret)] ELSE NoText :
        r \in get_date_time_object(b, i)}

(* ------------------------------ the caller ----------------------------- *)

Last == hist[Len(hist)]

\* A panic aborts the caller; otherwise it may call again.
Alive == Len(hist) < MaxCalls /\ (IF hist = <<>> THEN TRUE ELSE Last.outcome # "panic")

\* An encode call `name`(buf, i, [bit,] v) with result r.
Write(name, i, bit, v, r) ==
    /\ buf' = r.buf
    /\ hist' = Append(hist, [op |-> name, idx |-> i, bit |-> bit, val |-> v,
                             outcome |-> r.outcome, ret |-> 0,
                             before |-> buf, after |-> r.buf])

\* A decode call `name`(buf, i[, bit]) with result r: the buffer is borrowed
\* read-only.
Read(name, i, bit, r) ==
    /\ buf' = buf
    /\ hist' = Append(hist, [op |-> name, idx |-> i, bit |-> bit, val |-> 0,
                             outcome |-> r.outcome, ret |-> r.ret,
                             before |-> buf, after |-> buf])

(* ------------------------------- inputs -------------------------------- *)

\* byte_index for a field of w bytes: the start of the buffer, the last
\* position at which the field fits and the first at which it does not.
Idx(w) == {0, BufLen - w, BufLen - w + 1}

\* bool_index: the lowest bit, some in the middle, the highest, the first
\* index past them and a larger one.
BitIdx == {0, 3, 5, 6, 7, 8, 15}

Fill(x) == [k \in 1..BufLen |-> x]

Cycle(bytes) == [k \in 1..BufLen |-> bytes[((k - 1) % Len(bytes)) + 1]]

\* The vectors of test_get_lword and test_get_lint, repeated over the buffer.
LwordBytes == <<18, 52, 86, 120, 144, 171, 205, 239>>

LintBytes == <<255, 255, 255, 255, 255, 255, 255, 198>>

IntBufs == {Fill(0), Cycle(LwordBytes), Cycle(LintBytes)}

\* 0b10101010 is test_get_bool's byte.
BoolBufs == {Fill(0), Fill(255), Fill(170)}

U8Values == {18, 128, 255}

I8Values == {-128, -5, 127}

U16Values == {4660, 32768, 65535}

I16Values == {-32768, -42, 32767}

U32Values == {<<4660, 22136>>, <<32768, 0>>, <<65535, 65535>>}

I32Values == {-2147483647 - 1, -12345678, 2147483647}

\* f32 and f64 bit patterns: 12.34 (test_set_real, test_set_lreal), -2.0 and
\* a NaN.
RealValues == {<<16709, 28836>>, <<49152, 0>>, <<32704, 0>>}

LRealValues == {<<16424, 44564, 31457, 18350>>, <<49152, 0, 0, 0>>, <<32760, 0, 0, 0>>}

\* chars: 'A' (test_set_char), DEL, U+0080 and U+00E7 (test_set_char_non_ascii).
CharValues == {65, 127, 128, 231}

\* Characters of the time strings, in the order of their code points, and
\* those code points.
Characters ==
    <<" ", "-", ".", "0", "1", "2", "3", "4", "5", "6", "7", "8", "9", ":",
      "a", "b", "c", "d", "e", "f", "g", "h", "i", "j", "k", "l", "m",
      "n", "o", "p", "q", "r", "s", "t", "u", "v", "w", "x", "y", "z">>

CodePoints ==
    <<32, 45, 46, 48, 49, 50, 51, 52, 53, 54, 55, 56, 57, 58,
      97, 98, 99, 100, 101, 102, 103, 104, 105, 106, 107, 108, 109,
      110, 111, 112, 113, 114, 115, 116, 117, 118, 119, 120, 121, 122>>

\* The &str written as a sequence of one-character strings.
str(chars) ==
    [k \in DOMAIN chars |->
        CodePoints[CHOOSE m \in DOMAIN Characters : Characters[m] = chars[k]]]

\* Time strings: the two of the tests ("0:0:0:1:0.0", "invalid time"), a
\* negative one, the largest i32, one without a separator before the last
\* group, one whose days exceed u64 and one whose days times 24 does.
TimeStrings ==
    {str(<<"0", ":", "0", ":", "0", ":", "1", ":", "0", ".", "0">>),
     str(<<"i", "n", "v", "a", "l", "i", "d", " ", "t", "i", "m", "e">>),
     str(<<"-", "0", ":", "0", ":", "0", ":", "1", ".", "5", "0", "0">>),
     str(<<"2", "4", ":", "2", "0", ":", "3", "1", ":", "2", "3", ".", "6", "4", "7">>),
     str(<<"1", ":", "2", ":", "3", ":", "4", "5", "6">>),
     str(<<"9", "9", "9", "9", "9", "9", "9", "9", "9", "9", "9", "9", "9", "9", "9", "9",
           "9", "9", "9", "9", ":", "0", ":", "0", ":", "0", ".", "0">>),
     str(<<"7", "6", "8", "6", "1", "4", "3", "3", "6", "4", "0", "4", "5", "6", "4", "6",
           "5", "1", ":", "0", ":", "0", ":", "0", ".", "0">>)}

\* Dates: the day before the range, its first day, test_set_date's, the first
\* whose day count exceeds i16::MAX, the last of the range and the day after;
\* 29 February 2000, the last day whose count an i16 holds, and the day
\* after February 2100, which has 28 days.
DateValues ==
    {ymd(1989, 12, 31), ymd(1990, 1, 1), ymd(2024, 3, 27),
     ymd(2079, 9, 19), ymd(2168, 12, 31), ymd(2169, 1, 1),
     ymd(2000, 2, 29), ymd(2079, 9, 18), ymd(2100, 3, 1)}

\* A buffer that starts with the given bytes, the rest being spaces.
Pad(bytes) == [k \in 1..BufLen |-> IF k <= Len(bytes) THEN bytes[k] ELSE 32]

\* A string whose capacity and length fill the buffer: 'a', 'b', ...
FullString == [k \in 1..BufLen |-> IF k <= 2 THEN BufLen - 2 ELSE 94 + k]

\* Strings: test_get_string's [5, 4, "hello"]; a length above the capacity;
\* capacity 255; capacity 254; the empty string; two bytes that encode one
\* character (U+00E9); a byte that is not UTF-8; a length that runs past the
\* buffer; a string inside another's text; a string that ends with the
\* buffer.
StringBufs ==
    {Pad(<<5, 4, 104, 101, 108, 108, 111>>),
     Pad(<<5, 6, 104, 101, 108, 108, 111, 33>>),
     Pad(<<255, 2, 65, 66>>),
     Pad(<<254, 2, 65, 66>>),
     Pad(<<0, 0, 65>>),
     Pad(<<4, 2, 195, 169, 65>>),
     Pad(<<3, 2, 255, 65>>),
     Pad(<<20, 12, 65, 66>>),
     Pad(<<9, 3, 2, 72, 105>>),
     FullString}

\* Fixed strings, padded with spaces: test_get_fstring's "hello"; " a b"
\* and a tab; "hi" and a newline; U+00E9, a space and U+00A0; a byte that is
\* not UTF-8.
FStringBufs ==
    {Pad(<<104, 101, 108, 108, 111>>),
     Pad(<<32, 97, 32, 98, 9>>),
     Pad(<<104, 105, 10>>),
     Pad(<<195, 169, 32, 194, 160>>),
     Pad(<<65, 255>>)}

\* byte_index of a string: the start of the buffer, the byte after it, and
\* the three positions at which the header no longer fits or leaves no room.
StringIdx == {0, 1, BufLen - 2, BufLen - 1, BufLen}

\* Day counts in the first two bytes and again in the last two: 0, 12418
\* (2024-01-01, test_get_date), 32768, 65378 (2168-12-31), 65379 and 65535.
DateBufs ==
    {[k \in 1..BufLen |-> IF k \in {1, BufLen - 1} THEN n \div 256
                          ELSE IF k \in {2, BufLen} THEN n % 256 ELSE 170] :
        n \in {0, 12418, 32768, 65378, 65379, 65535}}

\* A buffer that starts with `first` and ends with `last`, 170 between them.
Ends(first, last) ==
    [k \in 1..BufLen |->
        IF k <= Len(first) THEN first[k]
        ELSE IF k > BufLen - Len(last) THEN last[k - (BufLen - Len(last))]
        ELSE 170]

\* Milliseconds of the day: 86400 (test_get_tod), 0, 86 399 999, 86 400 000,
\* 2^31 and u32::MAX.
TodBufs ==
    {Ends(<<0, 1, 81, 128>>, <<0, 0, 0, 0>>),
     Ends(<<5, 38, 91, 255>>, <<0, 1, 81, 128>>),
     Ends(<<5, 38, 92, 0>>, <<5, 38, 91, 255>>),
     Ends(<<128, 0, 0, 0>>, <<5, 38, 92, 0>>),
     Ends(<<255, 255, 255, 255>>, <<128, 0, 0, 0>>),
     Ends(<<0, 0, 0, 0>>, <<255, 255, 255, 255>>)}

\* DATE_AND_TIME spans: test_get_dt's; 2023-08-15 12:34:56.789; the years 95,
\* 89 and 90; a month byte 0x0A; a year byte 0xFA; an hour byte 0x1A; months
\* 13 and 0; days 0 and 32; 30 February; 29 February of 2023 and of 2024;
\* hour 24; minute 60; second 60; millisecond bytes 0xFF 0xF0 at second 0 and
\* at second 59; millisecond bytes 0x99 0xA0; test_get_dt's span and
\* 2023-08-15 12:34:56.789 with a weekday in the low nibble of the last byte.
DtBufs ==
    {Pad(<<36, 18, 18, 18, 48, 48, 48, 0>>),
     Pad(<<35, 8, 21, 18, 52, 86, 120, 144>>),
     Pad(<<149, 1, 1, 0, 0, 0, 0, 0>>),
     Pad(<<137, 18, 49, 35, 89, 89, 153, 144>>),
     Pad(<<144, 1, 1, 0, 0, 0, 0, 0>>),
     Pad(<<35, 10, 21, 18, 0, 0, 0, 0>>),
     Pad(<<250, 1, 1, 0, 0, 0, 0, 0>>),
     Pad(<<35, 1, 1, 26, 0, 0, 0, 0>>),
     Pad(<<35, 19, 1, 0, 0, 0, 0, 0>>),
     Pad(<<35, 0, 1, 0, 0, 0, 0, 0>>),
     Pad(<<35, 1, 0, 0, 0, 0, 0, 0>>),
     Pad(<<35, 1, 50, 0, 0, 0, 0, 0>>),
     Pad(<<36, 2, 48, 0, 0, 0, 0, 0>>),
     Pad(<<35, 2, 41, 0, 0, 0, 0, 0>>),
     Pad(<<36, 2, 41, 0, 0, 0, 0, 0>>),
     Pad(<<35, 1, 1, 36, 0, 0, 0, 0>>),
     Pad(<<35, 1, 1, 0, 96, 0, 0, 0>>),
     Pad(<<35, 1, 1, 0, 0, 96, 0, 0>>),
     Pad(<<35, 1, 1, 0, 0, 0, 255, 240>>),
     Pad(<<35, 1, 1, 0, 0, 89, 255, 240>>),
     Pad(<<35, 1, 1, 0, 0, 0, 153, 160>>),
     Pad(<<36, 18, 18, 18, 48, 48, 48, 5>>),
     Pad(<<35, 8, 21, 18, 52, 86, 120, 151>>)}

\* S5TIME spans: test_get_s5time's [0x12, 0x34]; zero; one unit of each base;
\* 999 units of the first and of the last base; a selector of 4 and of 15;
\* each magnitude nibble in turn above 9.
S5Bufs ==
    {Ends(<<18, 52>>, <<0, 0>>), Ends(<<0, 1>>, <<16, 1>>), Ends(<<32, 1>>, <<48, 1>>),
     Ends(<<9, 153>>, <<57, 153>>), Ends(<<64, 1>>, <<241, 35>>),
     Ends(<<26, 0>>, <<16, 176>>), Ends(<<16, 12>>, <<33, 5>>)}

\* TIME values: i32::MAX (test_get_time) and -1; 0 and 1000; i32::MIN and
\* -2147483647; 1 day 2:03:04.005 and its negative; -1500 and 86 400 000.
TimeBufs ==
    {Ends(<<127, 255, 255, 255>>, <<255, 255, 255, 255>>),
     Ends(<<0, 0, 0, 0>>, <<0, 0, 3, 232>>),
     Ends(<<128, 0, 0, 0>>, <<128, 0, 0, 1>>),
     Ends(<<5, 151, 7, 197>>, <<250, 104, 248, 59>>),
     Ends(<<255, 255, 250, 36>>, <<5, 38, 92, 0>>)}

\* Descriptors [-]D:H:M:S.ms: zero and minus zero; 1 s; -1.5 s written with
\* ms 500; the largest and the smallest total an i32 other than i32::MIN
\* holds; fields with leading zeros; fields that are not reduced (25 hours,
\* 61 minutes).
TimeDescriptors ==
    {str(<<"0", ":", "0", ":", "0", ":", "0", ".", "0">>),
     str(<<"-", "0", ":", "0", ":", "0", ":", "0", ".", "0">>),
     str(<<"0", ":", "0", ":", "0", ":", "1", ".", "0">>),
     str(<<"-", "0", ":", "0", ":", "0", ":", "1", ".", "5", "0", "0">>),
     str(<<"2", "4", ":", "2", "0", ":", "3", "1", ":", "2", "3", ".", "6", "4", "7">>),
     str(<<"-", "2", "4", ":", "2", "0", ":", "3", "1", ":", "2", "3", ".", "6", "4", "7">>),
     str(<<"0", "1", ":", "0", "2", ":", "0", "3", ":", "0", "4", ".", "0", "0", "5">>),
     str(<<"-", "0", ":", "2", "5", ":", "6", "1", ":", "0", ".", "7">>)}

\* Descriptors at and beyond the ends of i32: 2^31 ms; -2^31 ms, which an
\* i32 holds; -(2^31 + 1) ms; 50 days, which is above 2^32 ms.
LongDescriptors ==
    {str(<<"2", "4", ":", "2", "0", ":", "3", "1", ":", "2", "3", ".", "6", "4", "8">>),
     str(<<"-", "2", "4", ":", "2", "0", ":", "3", "1", ":", "2", "3", ".", "6", "4", "8">>),
     str(<<"-", "2", "4", ":", "2", "0", ":", "3", "1", ":", "2", "3", ".", "6", "4", "9">>),
     str(<<"5", "0", ":", "0", ":", "0", ":", "0", ".", "0">>)}

\* parse_time_string of the time strings the callers pass, evaluated once.
parsed_time_strings ==
    [t \in TimeStrings \cup TimeDescriptors \cup LongDescriptors |-> parse_time_string(t)]

\* set_time: parses first (`?` returns the Err), then slices, then writes.
set_time(b, i, time_string) ==
    {IF parsed.outcome = "err" THEN [outcome |-> "err", buf |-> b]
     ELSE IF parsed.outcome = "panic" THEN Panic(b)
     ELSE IF ~InBounds(b, i, 4) THEN Panic(b)
     ELSE [outcome |-> "ok",
           buf |-> copy_from_slice(b, i, to_be_bytes(as_i32(parsed.duration), 4))] :
        parsed \in IF time_string \in DOMAIN parsed_time_strings
                   THEN parsed_time_strings[time_string]
                   ELSE parse_time_string(time_string)}

(* ------------------------------- calls --------------------------------- *)

CallSetReal == Alive /\ \E i \in Idx(4), v \in RealValues :
    Write("set_real", i, 0, v, set_real(buf, i, v))

CallSetLreal == Alive /\ \E i \in Idx(8), v \in LRealValues :
    Write("set_lreal", i, 0, v, set_lreal(buf, i, v))

CallSetChar == Alive /\ \E i \in Idx(1), v \in CharValues :
    Write("set_char", i, 0, v, set_char(buf, i, v))

CallSetTime == Alive /\ \E i \in Idx(4), v \in TimeStrings : \E r \in set_time(buf, i, v) :
    Write("set_time", i, 0, v, r)

CallSetDate == Alive /\ \E i \in Idx(2), v \in DateValues :
    Write("set_date", i, 0, v, set_date(buf, i, v))

CallGetDate == Alive /\ \E i \in Idx(2) : Read("get_date", i, 0, get_date(buf, i))

CallGetTod == Alive /\ \E i \in Idx(4) : Read("get_tod", i, 0, get_tod(buf, i))

CallGetDateTimeObject == Alive /\ \E i \in Idx(8) : \E r \in get_date_time_object(buf, i) :
    Read("get_date_time_object", i, 0, r)

CallGetDt == Alive /\ \E i \in Idx(8) : \E r \in get_dt(buf, i) : Read("get_dt", i, 0, r)

CallGetS5time == Alive /\ \E i \in Idx(2) : Read("get_s5time", i, 0, get_s5time(buf, i))

CallGetTime == Alive /\ \E i \in Idx(4) : \E r \in get_time(buf, i) : Read("get_time", i, 0, r)

\* set_time called with a descriptor of the form [-]D:H:M:S.ms.
CallSetTimeDescriptor == Alive /\ \E i \in Idx(4), v \in TimeDescriptors :
    \E r \in set_time(buf, i, v) : Write("set_time", i, 0, v, r)

\* set_time called with the text the preceding get_time returned, at the
\* same byte_index.
CallSetTimeReturned ==
    /\ Alive /\ hist # <<>>
    /\ Last.op = "get_time" /\ Last.outcome = "ok"
    /\ \E r \in set_time(buf, Last.idx, Last.ret) : Write("set_time", Last.idx, 0, Last.ret, r)

\* get_fstring at the start of the buffer, one byte in and where five bytes
\* are left, for lengths 0, 3, 5, the whole buffer and one more.
CallGetFstring == Alive /\ \E i \in {0, 1, BufLen - 5}, n \in {0, 3, 5, BufLen, BufLen + 1} :
    \E p \in BOOLEAN :
        LET r == get_fstring(buf, i, n, p)
        IN  /\ buf' = buf
            /\ hist' = Append(hist, [op |-> "get_fstring", idx |-> i, bit |-> 0,
                                     val |-> [max_length |-> n, remove_padding |-> p],
                                     outcome |-> r.outcome, ret |-> r.ret,
                                     before |-> buf, after |-> buf])

\* set_time called with a descriptor whose total is at or beyond an end of
\* i32.
CallSetTimeLong == Alive /\ \E i \in Idx(4), v \in LongDescriptors :
    \E r \in set_time(buf, i, v) : Write("set_time", i, 0, v, r)

CallGetString == Alive /\ \E i \in StringIdx : Read("get_string", i, 0, get_string(buf, i))

CallSetBool == Alive /\ \E i \in Idx(1), bit \in BitIdx, v \in BOOLEAN :
    Write("set_bool", i, bit, v, set_bool(buf, i, bit, v))

CallSetByte == Alive /\ \E i \in Idx(1), v \in U8Values :
    Write("set_byte", i, 0, v, set_byte(buf, i, v))

CallSetWord == Alive /\ \E i \in Idx(2), v \in U16Values :
    Write("set_word", i, 0, v, set_word(buf, i, v))

CallSetInt == Alive /\ \E i \in Idx(2), v \in I16Values :
    Write("set_int", i, 0, v, set_int(buf, i, v))

CallSetUint == Alive /\ \E i \in Idx(2), v \in U16Values :
    Write("set_uint", i, 0, v, set_uint(buf, i, v))

CallSetDword == Alive /\ \E i \in Idx(4), v \in U32Values :
    Write("set_dword", i, 0, v, set_dword(buf, i, v))

CallSetDint == Alive /\ \E i \in Idx(4), v \in I32Values :
    Write("set_dint", i, 0, v, set_dint(buf, i, v))

CallSetUdint == Alive /\ \E i \in Idx(4), v \in U32Values :
    Write("set_udint", i, 0, v, set_udint(buf, i, v))

CallSetUsint == Alive /\ \E i \in Idx(1), v \in U8Values :
    Write("set_usint", i, 0, v, set_usint(buf, i, v))

CallSetSint == Alive /\ \E i \in Idx(1), v \in I8Values :
    Write("set_sint", i, 0, v, set_sint(buf, i, v))

CallGetBool == Alive /\ \E i \in Idx(1), bit \in BitIdx : \E r \in get_bool(buf, i, bit) :
    Read("get_bool", i, bit, r)

CallGetByte == Alive /\ \E i \in Idx(1) : Read("get_byte", i, 0, get_byte(buf, i))

CallGetWord == Alive /\ \E i \in Idx(2) : Read("get_word", i, 0, get_word(buf, i))

CallGetInt == Alive /\ \E i \in Idx(2) : Read("get_int", i, 0, get_int(buf, i))

CallGetUint == Alive /\ \E i \in Idx(2) : Read("get_uint", i, 0, get_uint(buf, i))

CallGetDword == Alive /\ \E i \in Idx(4) : Read("get_dword", i, 0, get_dword(buf, i))

CallGetDint == Alive /\ \E i \in Idx(4) : Read("get_dint", i, 0, get_dint(buf, i))

CallGetUdint == Alive /\ \E i \in Idx(4) : Read("get_udint", i, 0, get_udint(buf, i))

CallGetUsint == Alive /\ \E i \in Idx(1) : Read("get_usint", i, 0, get_usint(buf, i))

CallGetSint == Alive /\ \E i \in Idx(1) : Read("get_sint", i, 0, get_sint(buf, i))

CallGetLint == Alive /\ \E i \in Idx(8) : Read("get_lint", i, 0, get_lint(buf, i))

CallGetLword == Alive /\ \E i \in Idx(8) : Read("get_lword", i, 0, get_lword(buf, i))

CallGetUlint == Alive /\ \E i \in Idx(8) : Read("get_ulint", i, 0, get_ulint(buf, i))

(* --------------------------- specifications ---------------------------- *)

Start(bufs) == buf \in bufs /\ hist = <<>>

\* The fixed-width integer encoders and decoders.
InitInt == Start(IntBufs)

NextInt ==
    \/ CallSetByte \/ CallSetUsint \/ CallSetSint
    \/ CallSetWord \/ CallSetUint \/ CallSetInt
    \/ CallSetDword \/ CallSetUdint \/ CallSetDint
    \/ CallGetByte \/ CallGetUsint \/ CallGetSint
    \/ CallGetWord \/ CallGetUint \/ CallGetInt
    \/ CallGetDword \/ CallGetUdint \/ CallGetDint
    \/ CallGetLint \/ CallGetLword \/ CallGetUlint

SpecInt == InitInt /\ [][NextInt]_vars

\* The bit encoder and decoder.
InitBool == Start(BoolBufs)

NextBool == CallSetBool \/ CallGetBool

SpecBool == InitBool /\ [][NextBool]_vars

\* Strings and characters.
InitString == Start(StringBufs)

NextString == CallGetString \/ CallSetChar

SpecString == InitString /\ [][NextString]_vars

\* Every encoder.
InitEnc == Start({Fill(170)})

NextEnc ==
    \/ CallSetBool \/ CallSetChar \/ CallSetTime \/ CallSetDate
    \/ CallSetByte \/ CallSetUsint \/ CallSetSint
    \/ CallSetWord \/ CallSetUint \/ CallSetInt
    \/ CallSetDword \/ CallSetUdint \/ CallSetDint
    \/ CallSetReal \/ CallSetLreal

SpecEnc == InitEnc /\ [][NextEnc]_vars

\* The date encoder and decoder.
InitDate == Start(DateBufs)

NextDate == CallSetDate \/ CallGetDate

SpecDate == InitDate /\ [][NextDate]_vars

\* The decoders of durations.
InitDuration == Start(TodBufs \cup S5Bufs)

NextDuration == CallGetTod \/ CallGetS5time

SpecDuration == InitDuration /\ [][NextDuration]_vars

\* The DATE_AND_TIME decoders.
InitDt == Start(DtBufs)

NextDt == CallGetDateTimeObject \/ CallGetDt

SpecDt == InitDt /\ [][NextDt]_vars

\* The fixed-string decoder.
InitFString == Start(FStringBufs)

NextFString == CallGetFstring

SpecFString == InitFString /\ [][NextFString]_vars

\* The TIME encoder and decoder.
InitTime == Start(TimeBufs)

NextTime == CallGetTime \/ CallSetTimeDescriptor \/ CallSetTimeReturned

SpecTime == InitTime /\ [][NextTime]_vars

\* The TIME encoder at the ends of the range, and the decoder.
InitTimeRange == Start(TimeBufs)

NextTimeRange == CallSetTimeLong \/ CallGetTime

SpecTimeRange == InitTimeRange /\ [][NextTimeRange]_vars

\* Encoders of every width and of single bits, two and more on one buffer.
InitPairs == Start({Fill(170)})

NextPairs ==
    \/ CallSetBool \/ CallSetByte \/ CallSetWord \/ CallSetDint
    \/ CallSetReal \/ CallSetLreal

SpecPairs == InitPairs /\ [][NextPairs]_vars

(* ------------------------------- claims -------------------------------- *)

Calls == DOMAIN hist

Ok(c) == c.outcome = "ok"

\* The decoder of the type an integer encoder writes.
DecoderOf(op) ==
    CASE op = "set_byte" -> "get_byte"
      [] op = "set_usint" -> "get_usint"
      [] op = "set_sint" -> "get_sint"
      [] op = "set_word" -> "get_word"
      [] op = "set_uint" -> "get_uint"
      [] op = "set_int" -> "get_int"
      [] op = "set_dword" -> "get_dword"
      [] op = "set_udint" -> "get_udint"
      [] op = "set_dint" -> "get_dint"
      [] OTHER -> "none"

\* Bytes of the field of an integer encoder or decoder.
WidthOf(op) ==
    CASE op \in {"set_byte", "set_usint", "set_sint", "get_byte", "get_usint", "get_sint"} -> 1
      [] op \in {"set_word", "set_uint", "set_int", "get_word", "get_uint", "get_int"} -> 2
      [] op \in {"set_dword", "set_udint", "set_dint", "get_dword", "get_udint", "get_dint"} -> 4
      [] op \in {"get_lint", "get_lword", "get_ulint"} -> 8
      [] OTHER -> 0

\* C1: integer round-trip.  Whenever set_<type>(buf, i, x) has succeeded
\* and the next call is get_<type>(buf, i) on the same byte_index, for any
\* of byte, usint, sint, word, uint, int, dword, udint, dint, the decoder
\* succeeds and returns exactly x, whatever the buffer held before.
C1_RoundTrip ==
    \A j \in Calls : \A k \in Calls :
        (/\ k = j + 1
         /\ DecoderOf(hist[j].op) # "none"
         /\ Ok(hist[j])
         /\ hist[k].op = DecoderOf(hist[j].op)
         /\ hist[k].idx = hist[j].idx)
        => (Ok(hist[k]) /\ hist[k].ret = hist[j].val)

\* C1 witness: set_int of -42 over a buffer that held other bytes, then
\* get_int at the same place returning -42.
C1_Witness ==
    /\ Len(hist) = 2
    /\ hist[1].op = "set_int" /\ hist[1].val = -42 /\ Ok(hist[1])
    /\ hist[1].before # hist[1].after
    /\ hist[2].op = "get_int" /\ hist[2].idx = hist[1].idx
    /\ hist[2].ret = -42

\* The most and the least significant byte of the value an encoder was
\* given: of a limb sequence for the u32 encoders, of an integer of w bytes
\* (two's complement) for the others.
MostSignificant(op, v, w) ==
    IF op \in {"set_dword", "set_udint"} THEN v[1] \div 256
    ELSE (v \div Pow256(w - 1)) % 256

LeastSignificant(op, v) ==
    IF op \in {"set_dword", "set_udint"} THEN v[Len(v)] % 256 ELSE v % 256

MultiByteSetters == {"set_word", "set_uint", "set_int", "set_dword", "set_udint", "set_dint"}

\* C2: big-endian encoding.  Every call of a multi-byte integer setter at
\* an in-bounds byte_index succeeds and leaves the most significant byte of
\* the value at buf[byte_index] and the least significant at
\* buf[byte_index + width - 1]; set_word(buf, i, 0x1234) leaves 0x12, 0x34
\* and set_int(buf, i, -32768) leaves 0x80, 0x00.
C2_BigEndian ==
    \A j \in Calls :
        LET c == hist[j]
            w == WidthOf(c.op)
        IN  (c.op \in MultiByteSetters /\ InBounds(c.before, c.idx, w))
            => /\ Ok(c)
               /\ c.after[c.idx + 1] = MostSignificant(c.op, c.val, w)
               /\ c.after[c.idx + w] = LeastSignificant(c.op, c.val)
               /\ (c.op = "set_word" /\ c.val = 4660 => Slice(c.after, c.idx, 2) = <<18, 52>>)
               /\ (c.op = "set_int" /\ c.val = -32768 => Slice(c.after, c.idx, 2) = <<128, 0>>)

\* C2 witness: set_int(buf, 0, -32768) has left 0x80, 0x00 where other bytes
\* were.
C2_Witness ==
    \E j \in Calls :
        /\ hist[j].op = "set_int" /\ hist[j].idx = 0 /\ hist[j].val = -32768
        /\ Slice(hist[j].before, 0, 2) # <<128, 0>>
        /\ Slice(hist[j].after, 0, 2) = <<128, 0>>

IntGetters == {"get_byte", "get_usint", "get_sint", "get_word", "get_uint", "get_int",
               "get_dword", "get_udint", "get_dint", "get_lint", "get_lword", "get_ulint"}

\* The integer decoder `op` applied to buffer b at byte_index i.
Decode(op, b, i) ==
    CASE op = "get_byte" -> get_byte(b, i)
      [] op = "get_usint" -> get_usint(b, i)
      [] op = "get_sint" -> get_sint(b, i)
      [] op = "get_word" -> get_word(b, i)
      [] op = "get_uint" -> get_uint(b, i)
      [] op = "get_int" -> get_int(b, i)
      [] op = "get_dword" -> get_dword(b, i)
      [] op = "get_udint" -> get_udint(b, i)
      [] op = "get_dint" -> get_dint(b, i)
      [] op = "get_lint" -> get_lint(b, i)
      [] op = "get_lword" -> get_lword(b, i)
      [] op = "get_ulint" -> get_ulint(b, i)

\* sum(span[k + 1] * 256^(w - 1 - k)) for a span of one or two bytes.
UnsignedSum(span) == IF Len(span) = 1 THEN span[1] ELSE span[1] * 256 + span[2]

\* Byte k (0 the most significant) of a limb sequence.
ByteOfLimbs(limbs, k) ==
    IF k % 2 = 0 THEN limbs[(k \div 2) + 1] \div 256 ELSE limbs[(k \div 2) + 1] % 256

\* limbs is the number sum(span[k + 1] * 256^(w - 1 - k)).
IsUnsignedSum(limbs, span) ==
    /\ Len(limbs) * 2 = Len(span)
    /\ \A m \in DOMAIN limbs : limbs[m] \in 0..65535
    /\ \A k \in 0..(Len(span) - 1) : ByteOfLimbs(limbs, k) = span[k + 1]

\* The limbs of sum(span[k + 1] * 256^(w - 1 - k)).
UnsignedLimbs(span) == [m \in 1..(Len(span) \div 2) |-> span[2 * m - 1] * 256 + span[2 * m]]

\* The sum of two limb sequences of one length, with the carry out in front.
RECURSIVE AddLimbs(_, _, _)
AddLimbs(x, y, carry) ==
    IF x = <<>> THEN <<carry>>
    ELSE LET n == Len(x)
             t == x[n] + y[n] + carry
         IN  Append(AddLimbs(SubSeq(x, 1, n - 1), SubSeq(y, 1, n - 1), t \div 65536), t % 65536)

\* What a decoder of signed or unsigned big-endian integers returns for the
\* bytes of its span.
DecodesTo(op, span, ret) ==
    LET w == Len(span)
        u == UnsignedSum(span)
    IN  CASE op \in {"get_byte", "get_usint", "get_word", "get_uint"} -> ret = u
          [] op \in {"get_sint", "get_int"} ->
                ret = IF u >= Pow256(w) \div 2 THEN u - Pow256(w) ELSE u
          [] op = "get_dint" ->
                /\ \A k \in 0..3 : (ret \div Pow256(3 - k)) % 256 = span[k + 1]
                /\ (ret < 0) = (span[1] >= 128)
          [] op \in {"get_dword", "get_udint", "get_lword", "get_ulint"} ->
                IsUnsignedSum(ret, span)
          [] op = "get_lint" ->
                /\ ret.neg = (span[1] >= 128)
                /\ Len(ret.mag) = 4
                /\ \A m \in 1..4 : ret.mag[m] \in 0..65535
                /\ ~ret.neg => IsUnsignedSum(ret.mag, span)
                /\ ret.neg => AddLimbs(ret.mag, UnsignedLimbs(span), 0) = <<1, 0, 0, 0, 0>>

\* C3: big-endian two's-complement decoding.  Every integer getter called
\* with its span in bounds succeeds and returns
\* sum(buf[byte_index + k] * 256^(width - 1 - k)) over exactly `width` bytes;
\* the signed getters return that value minus 2^(8 * width) when the top bit
\* of the first byte is set ([0xFF, 0xD6] gives -42, [0xF6] gives -10); and
\* the bytes outside the span do not matter: decoding the span alone gives
\* the same value.
C3_Decode ==
    \A j \in Calls :
        LET c == hist[j]
            w == WidthOf(c.op)
            span == Slice(c.before, c.idx, w)
        IN  (c.op \in IntGetters /\ InBounds(c.before, c.idx, w))
            => /\ Ok(c)
               /\ DecodesTo(c.op, span, c.ret)
               /\ Decode(c.op, span, 0).ret = c.ret
               /\ (c.op = "get_int" /\ span = <<255, 214>> => c.ret = -42)
               /\ (c.op = "get_sint" /\ span = <<246>> => c.ret = -10)

\* C3 witness: get_int has decoded [0xFF, 0xD6], in a buffer that holds other
\* bytes around it, to -42.
C3_Witness ==
    \E j \in Calls :
        /\ hist[j].op = "get_int" /\ Ok(hist[j])
        /\ Slice(hist[j].before, hist[j].idx, 2) = <<255, 214>>
        /\ hist[j].idx > 0
        /\ hist[j].before[hist[j].idx] # 255
        /\ hist[j].ret = -42

\* Bit k (0 the least significant) of byte x.
BitOf(x, k) == (x \div Pow2(k)) % 2

\* C4: bit isolation.  A set_bool call that succeeds changes at most bit
\* bool_index of buf[byte_index]: the other seven bits of that byte and every
\* other byte of the buffer are as before, and the buffer keeps its length;
\* set_bool on a zero byte with bool_index 3 and value true leaves
\* 0b00001000.
C4_BitIsolation ==
    \A j \in Calls :
        LET c == hist[j]
        IN  (c.op = "set_bool" /\ Ok(c))
            => /\ Len(c.after) = Len(c.before)
               /\ \A k \in DOMAIN c.before : k # c.idx + 1 => c.after[k] = c.before[k]
               /\ \A b \in 0..7 :
                    b # c.bit => BitOf(c.after[c.idx + 1], b) = BitOf(c.before[c.idx + 1], b)
               /\ (c.before[c.idx + 1] = 0 /\ c.bit = 3 /\ c.val => c.after[c.idx + 1] = 8)

\* C4 witness: set_bool has cleared bit 5 of a byte 0b10101010 among equal
\* bytes, leaving 0b10001010 there.
C4_Witness ==
    \E j \in Calls :
        /\ hist[j].op = "set_bool" /\ Ok(hist[j]) /\ hist[j].bit = 5 /\ ~hist[j].val
        /\ hist[j].before[hist[j].idx + 1] = 170
        /\ hist[j].after[hist[j].idx + 1] = 138

\* C5: bit addressing is LSB-first and round-trips.  For bool_index in 0..7
\* and an in-bounds byte_index, get_bool succeeds and is true exactly when
\* (buf[i] / 2^b) mod 2 = 1; a get_bool that follows a successful
\* set_bool(buf, i, b, v) on the same i and b returns v; and set_bool true
\* followed by set_bool false on the same bit, which was clear, leaves the
\* buffer as it was at first.
C5_BitRoundTrip ==
    /\ \A j \in Calls :
        LET c == hist[j]
        IN  (c.op = "get_bool" /\ c.bit \in 0..7 /\ InBounds(c.before, c.idx, 1))
            => (Ok(c) /\ c.ret = (BitOf(c.before[c.idx + 1], c.bit) = 1))
    /\ \A j \in Calls : \A k \in Calls :
        (/\ k = j + 1
         /\ hist[j].op = "set_bool" /\ Ok(hist[j])
         /\ hist[k].idx = hist[j].idx /\ hist[k].bit = hist[j].bit)
        => /\ hist[k].op = "get_bool" => (Ok(hist[k]) /\ hist[k].ret = hist[j].val)
           /\ (/\ hist[k].op = "set_bool"
               /\ hist[j].val /\ ~hist[k].val
               /\ BitOf(hist[j].before[hist[j].idx + 1], hist[j].bit) = 0)
              => (Ok(hist[k]) /\ hist[k].after = hist[j].before)

\* C5 witness: set_bool has set bit 6 of a byte 0b10101010, and the get_bool
\* of that bit that followed returned true.
C5_Witness ==
    /\ Len(hist) = 2
    /\ hist[1].op = "set_bool" /\ Ok(hist[1]) /\ hist[1].bit = 6 /\ hist[1].val
    /\ hist[1].before[hist[1].idx + 1] = 170
    /\ hist[2].op = "get_bool" /\ hist[2].idx = hist[1].idx /\ hist[2].bit = 6
    /\ hist[2].ret

\* C6: set_bool validates the bit index.  Every set_bool call with
\* bool_index > 7 returns an error and leaves every byte of the buffer as it
\* was, whatever byte_index (in bounds or not) and value it was given.
C6_BitIndexChecked ==
    \A j \in Calls :
        LET c == hist[j]
        IN  (c.op = "set_bool" /\ c.bit > 7) => (c.outcome = "err" /\ c.after = c.before)

\* C6 witness: set_bool with bool_index 8, value true and a byte_index past
\* the end of a buffer of bytes 0b10101010 has returned an error.
C6_Witness ==
    \E j \in Calls :
        /\ hist[j].op = "set_bool" /\ hist[j].bit = 8 /\ hist[j].val
        /\ hist[j].idx = BufLen
        /\ hist[j].before[1] = 170
        /\ hist[j].outcome = "err"

\* The span an encoder writes.
EncoderWidth(op) ==
    CASE op \in {"set_bool", "set_byte", "set_usint", "set_sint", "set_char"} -> 1
      [] op \in {"set_word", "set_uint", "set_int", "set_date"} -> 2
      [] op \in {"set_dword", "set_udint", "set_dint", "set_real", "set_time"} -> 4
      [] op = "set_lreal" -> 8
      [] OTHER -> 0

\* C7: no partial writes.  Whenever a call of an encoder (set_bool, set_char,
\* set_time, set_date, set_byte, set_usint, set_sint, set_word, set_uint,
\* set_int, set_dword, set_udint, set_dint, set_real, set_lreal) has not
\* completed successfully, because it returned Err or because it aborted,
\* every byte of the buffer equals its value before the call.
C7_NoPartialWrites ==
    \A j \in Calls :
        LET c == hist[j]
        IN  (EncoderWidth(c.op) > 0 /\ ~Ok(c)) => c.after = c.before

\* C7 witness: set_date has returned Err for 2169-01-01 on a byte_index in
\* bounds, and the set_time that followed, given a string that parses and a
\* byte_index whose span leaves the buffer, has aborted.
C7_Witness ==
    /\ Len(hist) = 2
    /\ hist[1].op = "set_date" /\ hist[1].val = ymd(2169, 1, 1) /\ hist[1].idx = 0
    /\ hist[1].outcome = "err"
    /\ hist[2].op = "set_time" /\ hist[2].idx = BufLen - 3
    /\ hist[2].val = str(<<"0", ":", "0", ":", "0", ":", "1", ":", "0", ".", "0">>)
    /\ hist[2].outcome = "panic"

\* C8, as the claim states it: every call of an integer decoder or encoder
\* whose span byte_index .. byte_index + width exceeds the buffer returns an
\* error to its caller and does not abort.
C8_BoundsErrorsReturned ==
    \A j \in Calls :
        LET c == hist[j]
        IN  (WidthOf(c.op) > 0 /\ ~InBounds(c.before, c.idx, WidthOf(c.op)))
            => c.outcome = "err"

\* The header of the string at byte_index i: both bytes lie in the buffer.
HasHeader(c) == InBounds(c.before, c.idx, 2)

max_capacity(c) == c.before[c.idx + 1]

current_length(c) == c.before[c.idx + 2]

\* C9, as the claim states it: every get_string call on a header with
\* current_length > max_capacity or max_capacity > 254 returns an error to
\* its caller and does not abort.
C9_HeaderErrorReturned ==
    \A j \in Calls :
        LET c == hist[j]
        IN  (/\ c.op = "get_string"
             /\ HasHeader(c)
             /\ (current_length(c) > max_capacity(c) \/ max_capacity(c) > 254))
            => c.outcome = "err"

ValidHeader(c) ==
    /\ c.op = "get_string"
    /\ HasHeader(c)
    /\ current_length(c) <= max_capacity(c)
    /\ max_capacity(c) <= 254

\* The current_length bytes after the header, all of them in the buffer.
Fits(c) == InBounds(c.before, c.idx + 2, current_length(c))

Content(c) == Slice(c.before, c.idx + 2, current_length(c))

\* The UTF-8 encoding of a character and of a text.
EncodeChar(cp) ==
    IF cp < 128 THEN <<cp>>
    ELSE IF cp < 2048 THEN <<192 + (cp \div 64), 128 + (cp % 64)>>
    ELSE IF cp < 65536
         THEN <<224 + (cp \div 4096), 128 + ((cp \div 64) % 64), 128 + (cp % 64)>>
    ELSE <<240 + (cp \div 262144), 128 + ((cp \div 4096) % 64),
           128 + ((cp \div 64) % 64), 128 + (cp % 64)>>

RECURSIVE EncodeText(_)
EncodeText(chars) ==
    IF chars = <<>> THEN <<>> ELSE EncodeChar(Head(chars)) \o EncodeText(Tail(chars))

\* Bytes that occur in no UTF-8 text.
NeverUtf8 == {192, 193} \cup (245..255)

\* C10 as the claim states it: for every header with current_length <=
\* max_capacity <= 254, get_string returns exactly current_length characters,
\* the k-th being the byte stored at byte_index + 2 + k, and it fails when
\* fewer than 2 + current_length bytes remain.
C10_ExactlyLengthCharacters ==
    \A j \in Calls :
        LET c == hist[j]
        IN  ValidHeader(c) =>
                IF Fits(c)
                THEN Ok(c) /\ Len(c.ret) = current_length(c) /\ c.ret = Content(c)
                ELSE ~Ok(c)

\* C10, amended: for every header with current_length <= max_capacity <= 254
\* whose current_length bytes lie in the buffer, get_string returns the text
\* those bytes encode in UTF-8 and nothing of the bytes after them: exactly
\* current_length characters, one per byte, when all of them are ASCII, and
\* fewer when some characters take several bytes; it fails when one of the
\* bytes occurs in no UTF-8 text, and when fewer than 2 + current_length
\* bytes remain in the buffer.
C10_StringDecoding ==
    \A j \in Calls :
        LET c == hist[j]
        IN  ValidHeader(c) =>
                IF Fits(c)
                THEN /\ (\A k \in 1..current_length(c) : Content(c)[k] < 128)
                        => (Ok(c) /\ c.ret = Content(c))
                     /\ Ok(c) => /\ EncodeText(c.ret) = Content(c)
                                 /\ Len(c.ret) <= current_length(c)
                     /\ (\E k \in 1..current_length(c) : Content(c)[k] \in NeverUtf8)
                        => ~Ok(c)
                ELSE ~Ok(c)

\* C10 witness: get_string at byte_index 0 of [5, 4, 'h', 'e', 'l', 'l', 'o',
\* ..] has returned "hell".
C10_Witness ==
    \E j \in Calls :
        /\ hist[j].op = "get_string" /\ hist[j].idx = 0
        /\ SubSeq(hist[j].before, 1, 7) = <<5, 4, 104, 101, 108, 108, 111>>
        /\ Ok(hist[j])
        /\ hist[j].ret = <<104, 101, 108, 108>>

\* The calendar, written out: leap years, the lengths of the months and the
\* number of days from 1990-01-01 to a date, counted year by year and month
\* by month.
LeapYear(y) == y % 4 = 0 /\ (y % 100 # 0 \/ y % 400 = 0)

MonthLength(y, m) ==
    IF m = 2 THEN (IF LeapYear(y) THEN 29 ELSE 28)
    ELSE IF m \in {4, 6, 9, 11} THEN 30 ELSE 31

ValidDate(d) ==
    /\ d.month \in 1..12
    /\ d.day >= 1
    /\ d.day <= MonthLength(d.year, d.month)

RECURSIVE DaysBeforeMonth(_, _)
DaysBeforeMonth(y, m) ==
    IF m = 1 THEN 0 ELSE DaysBeforeMonth(y, m - 1) + MonthLength(y, m - 1)

DaysBeforeYear(y) ==
    IF y >= 1990 THEN 365 * (y - 1990) + Cardinality({x \in 1990..(y - 1) : LeapYear(x)})
    ELSE 0 - 365 * (1990 - y) - Cardinality({x \in y..1989 : LeapYear(x)})

DayNumber(d) == DaysBeforeYear(d.year) + DaysBeforeMonth(d.year, d.month) + d.day - 1

\* 1990-01-01 ..= 2168-12-31
InDateRange(d) ==
    LET key == d.year * 10000 + d.month * 100 + d.day
    IN  key >= 19900101 /\ key <= 21681231

\* C11 (date range): set_date returns an error and leaves the buffer as it
\* was for every date before 1990-01-01 or after 2168-12-31 (it never
\* clamps), and for every date of the range whose two bytes lie in the buffer
\* it writes the number of days since 1990-01-01 as 2 bytes, big-endian;
\* 2024-03-27 gives [48, 216].
C11_DateRange ==
    \A k \in Calls :
        LET c == hist[k]
        IN  c.op = "set_date" =>
                IF ~InDateRange(c.val)
                THEN c.outcome = "err" /\ c.after = c.before
                ELSE InBounds(c.before, c.idx, 2) =>
                        /\ Ok(c)
                        /\ Slice(c.after, c.idx, 2) =
                               <<DayNumber(c.val) \div 256, DayNumber(c.val) % 256>>
                        /\ c.val = ymd(2024, 3, 27) => Slice(c.after, c.idx, 2) = <<48, 216>>

\* C11 witness: set_date has written [48, 216] for 2024-03-27, and a second
\* call with 1989-12-31 on the same bytes has returned Err and left them.
C11_Witness ==
    /\ Len(hist) = 2
    /\ hist[1].op = "set_date" /\ hist[1].val = ymd(2024, 3, 27) /\ hist[1].idx = 0
    /\ Ok(hist[1]) /\ Slice(hist[1].after, 0, 2) = <<48, 216>>
    /\ hist[2].op = "set_date" /\ hist[2].val = ymd(1989, 12, 31) /\ hist[2].idx = 0
    /\ hist[2].outcome = "err" /\ Slice(buf, 0, 2) = <<48, 216>>

\* The unsigned big-endian day count of the two bytes a get_date call reads.
DayCount(c) == c.before[c.idx + 1] * 256 + c.before[c.idx + 2]

\* C12 (date decoding): get_date reads its 2 bytes as an unsigned big-endian
\* day count n; for n <= 65378 it returns the date n days after 1990-01-01,
\* for n in 65379..65535 it fails; a date it returns lies in
\* 1990-01-01 ..= 2168-12-31.
C12_DateDecode ==
    \A k \in Calls :
        LET c == hist[k]
        IN  /\ c.op = "get_date" /\ InBounds(c.before, c.idx, 2) =>
                IF DayCount(c) <= 65378
                THEN Ok(c) /\ ValidDate(c.ret) /\ DayNumber(c.ret) = DayCount(c)
                ELSE ~Ok(c)
            /\ c.op = "get_date" /\ Ok(c) => InDateRange(c.ret)

\* C12 witness: get_date has returned 2168-12-31 for the bytes [255, 98]
\* (n = 65378).
C12_Witness ==
    \E k \in Calls :
        /\ hist[k].op = "get_date" /\ Ok(hist[k])
        /\ Slice(hist[k].before, hist[k].idx, 2) = <<255, 98>>
        /\ hist[k].ret = ymd(2168, 12, 31)

\* The four bytes a call reads make a value below 86 400 000 (0x05265C00).
BelowOneDay(c) ==
    LET span == Slice(c.before, c.idx, 4)
    IN  span[1] < 6 /\ ((span[1] * 256 + span[2]) * 256 + span[3]) * 256 + span[4] < 86400000

\* C13 (time of day): get_tod reads its 4 bytes as unsigned big-endian
\* milliseconds v; for v < 86 400 000 it returns the duration of exactly v
\* milliseconds ([0, 1, 0x51, 0x80] gives 86400 ms, 86 399 999 is accepted),
\* for v >= 86 400 000 it fails.
C13_TimeOfDay ==
    \A k \in Calls :
        LET c == hist[k]
            span == Slice(c.before, c.idx, 4)
        IN  c.op = "get_tod" /\ InBounds(c.before, c.idx, 4) =>
                IF BelowOneDay(c)
                THEN /\ Ok(c)
                     /\ c.ret.nanos % 1000000 = 0 /\ c.ret.nanos < 1000000000
                     /\ c.ret.secs * 1000 + (c.ret.nanos \div 1000000) =
                            ((span[1] * 256 + span[2]) * 256 + span[3]) * 256 + span[4]
                     /\ span = <<0, 1, 81, 128>> => c.ret = [secs |-> 86, nanos |-> 400000000]
                ELSE ~Ok(c)

\* C13 witness: get_tod has returned 86399.999 s for 86 399 999 and, called
\* again, 86.4 s for the bytes [0, 1, 0x51, 0x80].
C13_Witness ==
    \E j, k \in Calls :
        /\ hist[j].op = "get_tod" /\ Ok(hist[j])
        /\ hist[j].ret = [secs |-> 86399, nanos |-> 999000000]
        /\ hist[k].op = "get_tod" /\ Ok(hist[k])
        /\ Slice(hist[k].before, hist[k].idx, 4) = <<0, 1, 81, 128>>
        /\ hist[k].ret = [secs |-> 86, nanos |-> 400000000]

\* A call of one of the two DATE_AND_TIME decoders whose 8 bytes lie in the
\* buffer, and those bytes.
DtCall(c) == c.op \in {"get_date_time_object", "get_dt"} /\ InBounds(c.before, c.idx, 8)

DtSpan(c) == Slice(c.before, c.idx, 8)

\* A byte whose two nibbles are decimal digits, and the number they write.
IsBcd(x) == x \div 16 < 10 /\ x % 16 < 10

Bcd(x) == 10 * (x \div 16) + (x % 16)

\* The year a timestamp or its text shows.
YearOf(c) ==
    IF c.op = "get_dt"
    THEN (c.ret[1] - 48) * 1000 + (c.ret[2] - 48) * 100 + (c.ret[3] - 48) * 10 + c.ret[4] - 48
    ELSE c.ret.year

Pivot(y) == IF y < 90 THEN 2000 + y ELSE 1900 + y

\* C14 (century pivot): for a year byte that is valid BCD with value y the
\* decoders return the year 2000 + y when y < 90 and 1900 + y when y >= 90
\* (23 -> 2023, 95 -> 1995, 89 -> 2089, 90 -> 1990), a year in 1990..2089.
C14_CenturyPivot ==
    \A k \in Calls :
        LET c == hist[k]
            y == Bcd(DtSpan(c)[1])
        IN  DtCall(c) /\ Ok(c) /\ IsBcd(DtSpan(c)[1]) =>
                /\ YearOf(c) = Pivot(y)
                /\ YearOf(c) \in 1990..2089
                /\ DtSpan(c)[1] = 35 => YearOf(c) = 2023
                /\ DtSpan(c)[1] = 149 => YearOf(c) = 1995
                /\ DtSpan(c)[1] = 137 => YearOf(c) = 2089
                /\ DtSpan(c)[1] = 144 => YearOf(c) = 1990

\* C14 witness: both decoders have returned the year 1990 for the year byte
\* 0x90.
C14_Witness ==
    /\ Len(hist) = 2
    /\ hist[1].op = "get_date_time_object" /\ hist[2].op = "get_dt"
    /\ \A k \in Calls : /\ Ok(hist[k]) /\ hist[k].idx = 0
                        /\ hist[k].before[1] = 144 /\ YearOf(hist[k]) = 1990

\* Some nibble of the BCD fields (year, month, day, hour, minute, second, the
\* millisecond byte and the high nibble of the last byte) is 10 or more.
BadNibble(span) ==
    \/ \E k \in 1..7 : ~IsBcd(span[k])
    \/ span[8] \div 16 >= 10

\* C15 (BCD validity): the decoders reject every 8-byte span in which a
\* nibble of a BCD field is 10 or more; a month byte 0x0A is not accepted as
\* October.
C15_BcdRejected ==
    \A k \in Calls :
        LET c == hist[k]
        IN  DtCall(c) /\ BadNibble(DtSpan(c)) => ~Ok(c)

\* C16 (calendar validation): the decoders fail, and return no timestamp,
\* when a decoded field is outside its domain: a month not in 1..12, a day
\* the month does not have (0, 32, 30 February, 29 February of a common
\* year), an hour above 23, a minute or a second above 59.
C16_CalendarValidation ==
    \A k \in Calls :
        LET c == hist[k]
            span == DtSpan(c)
            year == Pivot(Bcd(span[1]))
            month == Bcd(span[2])
            day == Bcd(span[3])
        IN  DtCall(c) /\ (\/ ~ValidDate(ymd(year, month, day))
                          \/ Bcd(span[4]) > 23
                          \/ Bcd(span[5]) > 59
                          \/ Bcd(span[6]) > 59) => ~Ok(c)

\* C16 witness: get_date_time_object has failed on 29 February 2023.
C16_Witness ==
    \E k \in Calls :
        /\ hist[k].op = "get_date_time_object" /\ ~Ok(hist[k]) /\ hist[k].idx = 0
        /\ Slice(hist[k].before, 0, 3) = <<35, 2, 41>>

\* The number a sequence of decimal digits writes; -1 if it is empty or has
\* another character, -2 if the number is above 2^31 - 1.
RECURSIVE Number(_)
Number(digits) ==
    IF digits = <<>> THEN -1
    ELSE IF digits[Len(digits)] \notin 48..57 THEN -1
    ELSE IF Len(digits) = 1 THEN digits[1] - 48
    ELSE LET front == Number(SubSeq(digits, 1, Len(digits) - 1))
             d == digits[Len(digits)] - 48
         IN  IF front < 0 THEN front
             ELSE IF front > 214748364 \/ (front = 214748364 /\ d > 7) THEN -2
             ELSE front * 10 + d

\* The milliseconds a text such as "23.4s", "990ms" or "0ns" denotes; -1 if
\* it denotes no whole number of milliseconds.
MillisOf(text) ==
    LET n == Len(text)
        short == n >= 3 /\ text[n] = 115 /\ text[n - 1] \in {109, 110}
        body == IF short THEN SubSeq(text, 1, n - 2) ELSE SubSeq(text, 1, n - 1)
        dots == {p \in DOMAIN body : body[p] = 46}
        dot == IF dots = {} THEN Len(body) + 1 ELSE CHOOSE p \in dots : TRUE
        whole == Number(SubSeq(body, 1, dot - 1))
        part == SubSeq(body, dot + 1, Len(body))
        thousandths == Number(part \o SubSeq(<<48, 48, 48>>, 1, 3 - Len(part)))
    IN  IF n < 2 \/ text[n] # 115 \/ Cardinality(dots) > 1 \/ whole = -1 THEN -1
        ELSE IF short /\ text[n - 1] = 109 THEN (IF dots = {} THEN whole ELSE -1)
        ELSE IF short THEN (IF dots = {} /\ whole = 0 THEN 0 ELSE -1)
        ELSE IF dots = {} THEN whole * 1000
        ELSE IF Len(part) \in 1..3 /\ thousandths # -1 THEN whole * 1000 + thousandths
        ELSE -1

\* The four nibbles of the two bytes a get_s5time call reads.
Nibbles(c) ==
    LET span == Slice(c.before, c.idx, 2)
    IN  <<span[1] \div 16, span[1] % 16, span[2] \div 16, span[2] % 16>>

WellFormedS5(c) ==
    Nibbles(c)[1] <= 3 /\ \A k \in 2..4 : Nibbles(c)[k] <= 9

\* C17 (S5Time decoding): for a span whose first high nibble s is in 0..3 and
\* whose other nibbles d1, d2, d3 are decimal digits, get_s5time returns the
\* duration 10^(s+1) ms times 100*d1 + 10*d2 + d3; [0x12, 0x34] decodes to
\* 23.4 s.
C17_S5TimeDecoding ==
    \A k \in Calls :
        LET c == hist[k]
            q == Nibbles(c)
            unit == <<10, 100, 1000, 10000>>
        IN  c.op = "get_s5time" /\ InBounds(c.before, c.idx, 2) /\ WellFormedS5(c) =>
                /\ Ok(c)
                /\ MillisOf(c.ret) = unit[q[1] + 1] * (100 * q[2] + 10 * q[3] + q[4])
                /\ q = <<1, 2, 3, 4>> => c.ret = <<50, 51, 46, 52, 115>>

\* C17 witness: get_s5time has returned "23.4s" for [0x12, 0x34] and "0ns"
\* for [0x00, 0x00].
C17_Witness ==
    /\ Len(hist) = 2
    /\ hist[1].op = "get_s5time" /\ Slice(hist[1].before, hist[1].idx, 2) = <<18, 52>>
    /\ hist[1].ret = <<50, 51, 46, 52, 115>>
    /\ hist[2].op = "get_s5time" /\ Slice(hist[2].before, hist[2].idx, 2) = <<0, 0>>
    /\ hist[2].ret = <<48, 110, 115>>

\* C18 (S5Time malformed input): get_s5time fails, and returns no duration,
\* for every span whose base-selector nibble is greater than 3 or one of
\* whose three magnitude nibbles is 10 or more.
C18_S5TimeMalformed ==
    \A k \in Calls :
        LET c == hist[k]
        IN  c.op = "get_s5time" /\ InBounds(c.before, c.idx, 2) /\ ~WellFormedS5(c) => ~Ok(c)

\* C18 witness: get_s5time has failed on [0x10, 0x0C], whose last nibble
\* is 12.
C18_Witness ==
    \E k \in Calls :
        /\ hist[k].op = "get_s5time" /\ ~Ok(hist[k])
        /\ InBounds(hist[k].before, hist[k].idx, 2)
        /\ Slice(hist[k].before, hist[k].idx, 2) = <<16, 12>>

\* A text read as [-]D:H:M:S.ms: whether it has that form, whether it starts
\* with '-', and its five numbers (Number's -2 for one above 2^31 - 1).
TimeFields(text) ==
    LET neg == text # <<>> /\ text[1] = 45
        body == IF neg THEN Tail(text) ELSE text
        seps == {p \in DOMAIN body : body[p] \notin 48..57}
        at(k) == IF k = 0 THEN 0
                 ELSE IF k = 5 THEN Len(body) + 1
                 ELSE CHOOSE p \in seps : Cardinality({q \in seps : q < p}) = k - 1
        nums == [k \in 1..5 |-> Number(SubSeq(body, at(k - 1) + 1, at(k) - 1))]
    IN  IF Cardinality(seps) # 4 THEN [ok |-> FALSE, neg |-> neg, nums |-> <<>>]
        ELSE [ok |-> /\ \A k \in 1..3 : body[at(k)] = 58
                     /\ body[at(4)] = 46
                     /\ \A k \in 1..5 : nums[k] # -1,
              neg |-> neg, nums |-> nums]

\* acc * m + x, or -2 when an operand is -2 or the result is above 2^31 - 1.
Weigh(acc, m, x) ==
    IF acc < 0 \/ x < 0 THEN -2
    ELSE IF acc > (2147483647 - x) \div m THEN -2
    ELSE acc * m + x

\* (((D*24 + H)*60 + M)*60 + S)*1000 + ms, or -2 when it does not fit.
TotalMillis(nums) ==
    Weigh(Weigh(Weigh(Weigh(nums[1], 24, nums[2]), 60, nums[3]), 60, nums[4]), 1000, nums[5])

\* The signed 32-bit value four bytes hold, and the big-endian two's
\* complement bytes of a value.
SignedValue(span) ==
    (((IF span[1] >= 128 THEN span[1] - 256 ELSE span[1]) * 256 + span[2]) * 256 + span[3]) * 256
    + span[4]

TwosComplement(v) ==
    <<(v \div 16777216) % 256, (v \div 65536) % 256, (v \div 256) % 256, v % 256>>

\* C19 (time decoding): for every value v > -2^31 get_time renders a '-'
\* exactly when v < 0 and then days:hours:minutes:seconds.milliseconds with
\* hours in 0..23, minutes and seconds in 0..59, milliseconds in 0..999 and
\* days*86400000 + hours*3600000 + minutes*60000 + seconds*1000 +
\* milliseconds = |v|; 0x7FFFFFFF renders as "24:20:31:23.647".
C19_TimeDecoding ==
    \A k \in Calls :
        LET c == hist[k]
            v == SignedValue(Slice(c.before, c.idx, 4))
            f == TimeFields(c.ret)
        IN  c.op = "get_time" /\ InBounds(c.before, c.idx, 4) /\ v > -2147483647 - 1 =>
                /\ Ok(c)
                /\ f.ok
                /\ f.neg <=> v < 0
                /\ f.nums[1] \in 0..24
                /\ f.nums[2] \in 0..23
                /\ f.nums[3] \in 0..59
                /\ f.nums[4] \in 0..59
                /\ f.nums[5] \in 0..999
                /\ TotalMillis(f.nums) = (IF v < 0 THEN 0 - v ELSE v)
                /\ v = 2147483647 =>
                       c.ret = str(<<"2", "4", ":", "2", "0", ":", "3", "1", ":",
                                     "2", "3", ".", "6", "4", "7">>)

\* C19 witness: get_time has rendered 0x7FFFFFFF as "24:20:31:23.647" and,
\* called again, -1 with a '-'.
C19_Witness ==
    /\ Len(hist) = 2
    /\ hist[1].op = "get_time" /\ Slice(hist[1].before, hist[1].idx, 4) = <<127, 255, 255, 255>>
    /\ hist[1].ret = str(<<"2", "4", ":", "2", "0", ":", "3", "1", ":",
                           "2", "3", ".", "6", "4", "7">>)
    /\ hist[2].op = "get_time" /\ Slice(hist[2].before, hist[2].idx, 4) = <<255, 255, 255, 255>>
    /\ hist[2].ret = str(<<"-", "0", ":", "0", ":", "0", ":", "0", ".", "1">>)

\* A set_time call with a descriptor [-]D:H:M:S.ms whose total fits in an
\* i32, on four bytes that lie in the buffer.
EncodesTime(c) ==
    /\ c.op = "set_time" /\ InBounds(c.before, c.idx, 4)
    /\ TimeFields(c.val).ok
    /\ TotalMillis(TimeFields(c.val).nums) >= 0

\* The call returned Ok and wrote +T, or -T for a descriptor that starts
\* with '-', as 4 bytes big-endian two's complement.
WroteTotal(c) ==
    LET f == TimeFields(c.val)
        T == TotalMillis(f.nums)
    IN  /\ Ok(c)
        /\ Slice(c.after, c.idx, 4) = TwosComplement(IF f.neg THEN 0 - T ELSE T)

\* C20 as stated (time encoding): for every descriptor whose total T fits in
\* a signed 32-bit value set_time writes the two's complement of +T, or of -T
\* when the descriptor starts with '-', and returns Ok; a negative descriptor
\* is never written as a positive or zero value.
C20_NegativeNeverZero ==
    \A k \in Calls :
        LET c == hist[k]
        IN  EncodesTime(c) =>
                /\ WroteTotal(c)
                /\ TimeFields(c.val).neg => SignedValue(Slice(c.after, c.idx, 4)) < 0

\* C20 amended (time encoding): set_time writes the two's complement of +T,
\* or of -T when the descriptor starts with '-', and returns Ok; a negative
\* descriptor with T > 0 is written as a negative value, and one with T = 0
\* as zero.
C20_TimeEncoding ==
    \A k \in Calls :
        LET c == hist[k]
            f == TimeFields(c.val)
        IN  EncodesTime(c) =>
                /\ WroteTotal(c)
                /\ f.neg /\ TotalMillis(f.nums) > 0 => SignedValue(Slice(c.after, c.idx, 4)) < 0
                /\ f.neg /\ TotalMillis(f.nums) = 0 => Slice(c.after, c.idx, 4) = <<0, 0, 0, 0>>

\* C20 witness: set_time has written [128, 0, 0, 1] for "-24:20:31:23.647"
\* and then zero for "-0:0:0:0.0" over it.
C20_Witness ==
    /\ Len(hist) = 2
    /\ hist[1].op = "set_time" /\ Ok(hist[1]) /\ hist[1].idx = 0
    /\ hist[1].val = str(<<"-", "2", "4", ":", "2", "0", ":", "3", "1", ":",
                           "2", "3", ".", "6", "4", "7">>)
    /\ Slice(hist[1].after, 0, 4) = <<128, 0, 0, 1>>
    /\ hist[2].op = "set_time" /\ Ok(hist[2]) /\ hist[2].idx = 0
    /\ hist[2].val = str(<<"-", "0", ":", "0", ":", "0", ":", "0", ".", "0">>)
    /\ Slice(buf, 0, 4) = <<0, 0, 0, 0>>

\* C21 (time parse errors): set_time returns a parse error and leaves the
\* buffer as it was for every string that is not, as a whole, an optional
\* '-', four ':'-separated non-negative integers and a '.'-separated
\* trailing integer; a string that only contains such a pattern, or whose
\* last separator is not '.', is refused.
C21_ParseErrors ==
    \A k \in Calls :
        LET c == hist[k]
        IN  (c.op = "set_time" /\ ~TimeFields(c.val).ok)
            => (c.outcome = "err" /\ c.after = c.before)

\* C22 (time round-trip): when get_time has decoded a value v > -2^31 and
\* set_time is then given the returned text at the same byte_index, set_time
\* succeeds and leaves the same 4 bytes (and the rest of the buffer), so
\* get_time returns the same text again; negative values included.
C22_TimeRoundTrip ==
    \A j \in Calls : \A k \in Calls :
        LET g == hist[j]
            s == hist[k]
        IN  (/\ k = j + 1
             /\ g.op = "get_time" /\ Ok(g)
             /\ SignedValue(Slice(g.before, g.idx, 4)) > -2147483647 - 1
             /\ s.op = "set_time" /\ s.idx = g.idx /\ s.val = g.ret)
            => /\ Ok(s)
               /\ s.after = s.before
               /\ get_time(s.after, s.idx) = {[outcome |-> "ok", ret |-> g.ret]}

\* C22 witness: get_time returned "-1:2:3:4.5" for -93784005 and set_time,
\* given that text at the same place, succeeded.
C22_Witness ==
    /\ Len(hist) = 2
    /\ hist[1].op = "get_time" /\ Ok(hist[1])
    /\ Slice(hist[1].before, hist[1].idx, 4) = <<250, 104, 248, 59>>
    /\ hist[1].ret = str(<<"-", "1", ":", "2", ":", "3", ":", "4", ".", "5">>)
    /\ hist[2].op = "set_time" /\ Ok(hist[2]) /\ hist[2].idx = hist[1].idx
    /\ hist[2].val = hist[1].ret
    /\ Slice(buf, hist[2].idx, 4) = <<250, 104, 248, 59>>

\* C23 (char encoding): set_char of an ASCII character (code point 0..127)
\* at an in-bounds byte_index returns Ok and changes exactly the byte
\* buf[byte_index], to the code point; set_char of any non-ASCII character
\* returns an encoding error and leaves the whole buffer unchanged.
C23_CharEncoding ==
    \A k \in Calls :
        LET c == hist[k]
        IN  c.op = "set_char" =>
                /\ (c.val <= 127 /\ InBounds(c.before, c.idx, 1))
                   => (Ok(c) /\ c.after = [c.before EXCEPT ![c.idx + 1] = c.val])
                /\ c.val > 127 => (c.outcome = "err" /\ c.after = c.before)

\* C23 witness: set_char wrote 'A' over another byte, and after it U+00E7
\* was refused with the buffer left as it was.
C23_Witness ==
    /\ Len(hist) = 2
    /\ hist[1].op = "set_char" /\ hist[1].val = 65 /\ Ok(hist[1])
    /\ hist[1].before[hist[1].idx + 1] # 65
    /\ hist[1].after[hist[1].idx + 1] = 65
    /\ hist[2].op = "set_char" /\ hist[2].val = 231 /\ hist[2].outcome = "err"
    /\ buf = hist[1].after

\* C24 (FString decoding): get_fstring decodes exactly the max_length bytes
\* from byte_index; with remove_padding = false it returns all their
\* characters, and with remove_padding = true it returns them without the
\* trailing spaces (0x20) and removes nothing else: leading and interior
\* spaces and a trailing tab or newline stay.
C24_FStringDecoding ==
    \A k \in Calls :
        LET c == hist[k]
            text == from_utf8(Slice(c.before, c.idx, c.val.max_length))
            others == {p \in DOMAIN text.chars : text.chars[p] # 32}
            unpadded == SubSeq(text.chars, 1,
                               IF others = {} THEN 0
                               ELSE CHOOSE p \in others : \A q \in others : q <= p)
        IN  (/\ c.op = "get_fstring"
             /\ InBounds(c.before, c.idx, c.val.max_length)
             /\ text.ok)
            => /\ Ok(c)
               /\ c.ret = IF c.val.remove_padding THEN unpadded ELSE text.chars

\* C25 (encoder frame): a successful encode changes no byte outside
\* buf[byte_index .. byte_index + width), width being 1 for byte, usint,
\* sint, char and bool, 2 for word, uint, int and date, 4 for dword, udint,
\* dint, real and time and 8 for lreal, and the length of the buffer is the
\* same after any sequence of encode calls.  Stated of the latest call of
\* every reachable history, which is every call of every history.
C25_EncoderFrame ==
    /\ Len(buf) = BufLen
    /\ hist # <<>> =>
        LET c == Last
            w == EncoderWidth(c.op)
        IN  (w > 0 /\ Ok(c)) =>
                /\ InBounds(c.before, c.idx, w)
                /\ Len(c.after) = Len(c.before)
                /\ SubSeq(c.after, 1, c.idx) = SubSeq(c.before, 1, c.idx)
                /\ SubSeq(c.after, c.idx + w + 1, Len(c.after))
                   = SubSeq(c.before, c.idx + w + 1, Len(c.before))

\* C25 witness: set_lreal has changed the first eight bytes and left the
\* last, and set_word has then changed the last two and left the others.
C25_Witness ==
    /\ Len(hist) = 2
    /\ hist[1].op = "set_lreal" /\ Ok(hist[1]) /\ hist[1].idx = 0
    /\ \A p \in 1..8 : hist[1].after[p] # hist[1].before[p]
    /\ hist[2].op = "set_word" /\ Ok(hist[2]) /\ hist[2].idx = BufLen - 2
    /\ \A p \in (BufLen - 1)..BufLen : buf[p] # hist[2].before[p]
    /\ \A p \in 1..(BufLen - 2) : buf[p] = hist[1].after[p]

\* C26 (date round-trip): for every date d of 1990-01-01..2168-12-31,
\* set_date(buf, i, d) at an in-bounds byte_index succeeds and a get_date at
\* the same byte_index that follows it returns d; so too for the dates more
\* than 32767 days after 1990-01-01 (2079-09-19 and later), whose day count
\* set_date narrows to a signed 16-bit value.
C26_DateRoundTrip ==
    \A j \in Calls : \A k \in Calls :
        LET s == hist[j]
            g == hist[k]
        IN  (/\ s.op = "set_date"
             /\ ValidDate(s.val) /\ InDateRange(s.val)
             /\ InBounds(s.before, s.idx, 2))
            => /\ Ok(s)
               /\ (k = j + 1 /\ g.op = "get_date" /\ g.idx = s.idx)
                  => (Ok(g) /\ g.ret = s.val)

\* C26 witness: set_date has written 2079-09-19, day 32768, as [0x80, 0x00]
\* and get_date has returned 2079-09-19 from it.
C26_Witness ==
    /\ Len(hist) = 2
    /\ hist[1].op = "set_date" /\ Ok(hist[1]) /\ hist[1].val = ymd(2079, 9, 19)
    /\ Slice(hist[1].after, hist[1].idx, 2) = <<128, 0>>
    /\ hist[2].op = "get_date" /\ hist[2].idx = hist[1].idx /\ Ok(hist[2])
    /\ hist[2].ret = ymd(2079, 9, 19)

\* C27 (DateTime field decoding): for every 8-byte span whose bytes 0..6 and
\* the high nibble of byte 7 are decimal digits and whose fields are in
\* their domains, get_date_time_object returns month, day, hour, minute and
\* second equal to high nibble * 10 + low nibble of bytes 1..5 and a
\* sub-second part of (value of byte 6) * 10 + (high nibble of byte 7)
\* milliseconds, in 0..999, whatever the low nibble of byte 7 is;
\* [0x24, 0x12, 0x12, 0x12, 0x30, 0x30, 0x30, 0x00] decodes to
\* 2024-12-12 12:30:30.300 UTC.
C27_DateTimeFields ==
    \A k \in Calls :
        LET c == hist[k]
            span == DtSpan(c)
            millis == Bcd(span[7]) * 10 + (span[8] \div 16)
        IN  (/\ DtCall(c)
             /\ \A p \in 1..7 : IsBcd(span[p])
             /\ span[8] \div 16 < 10
             /\ ValidDate(ymd(Pivot(Bcd(span[1])), Bcd(span[2]), Bcd(span[3])))
             /\ Bcd(span[4]) <= 23 /\ Bcd(span[5]) <= 59 /\ Bcd(span[6]) <= 59)
            => /\ Ok(c)
               /\ c.op = "get_date_time_object" =>
                      /\ c.ret.month = Bcd(span[2])
                      /\ c.ret.day = Bcd(span[3])
                      /\ c.ret.hour = Bcd(span[4])
                      /\ c.ret.minute = Bcd(span[5])
                      /\ c.ret.second = Bcd(span[6])
                      /\ c.ret.microsecond = millis * 1000
                      /\ millis \in 0..999
               /\ (c.op = "get_date_time_object"
                   /\ SubSeq(span, 1, 7) = <<36, 18, 18, 18, 48, 48, 48>>
                   /\ span[8] \div 16 = 0)
                  => c.ret = [year |-> 2024, month |-> 12, day |-> 12, hour |-> 12,
                              minute |-> 30, second |-> 30, microsecond |-> 300000]
               /\ (c.op = "get_dt" /\ span = <<36, 18, 18, 18, 48, 48, 48, 0>>)
                  => c.ret = <<50, 48, 50, 52, 45, 49, 50, 45, 49, 50, 32, 49, 50, 58, 51, 48,
                               58, 51, 48, 46, 51, 48, 48, 32, 85, 84, 67>>

\* C27 witness: get_date_time_object has returned 12:34:56.789 on 15 August
\* for the bytes 0x08 0x15 0x12 0x34 0x56 0x78 0x97, the last with 7 in its
\* low nibble, and then get_dt the text of test_get_dt's span.
C27_Witness ==
    /\ Len(hist) = 2
    /\ hist[1].op = "get_date_time_object" /\ Ok(hist[1])
    /\ DtSpan(hist[1]) = <<35, 8, 21, 18, 52, 86, 120, 151>>
    /\ hist[1].ret.month = 8 /\ hist[1].ret.day = 15 /\ hist[1].ret.hour = 12
    /\ hist[1].ret.minute = 34 /\ hist[1].ret.second = 56
    /\ hist[1].ret.microsecond = 789000
    /\ hist[2].op = "get_dt" /\ Ok(hist[2])

\* C28 (time decoding at the lower boundary): for the bytes
\* [0x80, 0x00, 0x00, 0x00], the value -2^31, get_time completes and returns
\* "-24:20:31:23.648"; negating the value neither overflows nor aborts.
C28_LowerBoundary ==
    \A k \in Calls :
        LET c == hist[k]
        IN  (/\ c.op = "get_time" /\ InBounds(c.before, c.idx, 4)
             /\ Slice(c.before, c.idx, 4) = <<128, 0, 0, 0>>)
            => /\ Ok(c)
               /\ c.ret = str(<<"-", "2", "4", ":", "2", "0", ":", "3", "1", ":",
                                "2", "3", ".", "6", "4", "8">>)

\* The total of a well-formed descriptor does not fit in a signed 32-bit
\* value: it is above 2^31 - 1, and above 2^31 when the descriptor is
\* negative.
OutOfRange(text) ==
    LET f == TimeFields(text)
    IN  /\ f.ok
        /\ TotalMillis(f.nums) = -2
        /\ ~(/\ f.neg /\ f.nums[5] >= 1
             /\ TotalMillis([f.nums EXCEPT ![5] = @ - 1]) = 2147483647)

\* C29 (time encoding out of range): for every well-formed descriptor whose
\* total does not fit in a signed 32-bit value (above 2^31 - 1 ms when
\* positive, above 2^31 ms when negative) set_time returns an error and
\* leaves the buffer unchanged; it never writes the total truncated modulo
\* 2^32.
C29_OutOfRangeRefused ==
    \A k \in Calls :
        LET c == hist[k]
        IN  (c.op = "set_time" /\ OutOfRange(c.val))
            => (c.outcome = "err" /\ c.after = c.before)

\* The buffers in which the encoder `op`, called on b with these arguments,
\* can leave b when it succeeds.
Encoded(op, b, i, bit, v) ==
    LET results ==
            CASE op = "set_bool" -> {set_bool(b, i, bit, v)}
              [] op = "set_byte" -> {set_byte(b, i, v)}
              [] op = "set_usint" -> {set_usint(b, i, v)}
              [] op = "set_sint" -> {set_sint(b, i, v)}
              [] op = "set_char" -> {set_char(b, i, v)}
              [] op = "set_word" -> {set_word(b, i, v)}
              [] op = "set_uint" -> {set_uint(b, i, v)}
              [] op = "set_int" -> {set_int(b, i, v)}
              [] op = "set_date" -> {set_date(b, i, v)}
              [] op = "set_dword" -> {set_dword(b, i, v)}
              [] op = "set_udint" -> {set_udint(b, i, v)}
              [] op = "set_dint" -> {set_dint(b, i, v)}
              [] op = "set_real" -> {set_real(b, i, v)}
              [] op = "set_time" -> set_time(b, i, v)
              [] op = "set_lreal" -> {set_lreal(b, i, v)}
    IN  {r.buf : r \in {x \in results : x.outcome = "ok"}}

\* The encoders whose type has a decoder that returns the encoded value.
Decodable == {"set_bool", "set_byte", "set_usint", "set_sint", "set_word", "set_uint",
              "set_int", "set_date", "set_dword", "set_udint", "set_dint", "set_real",
              "set_lreal"}

\* What the decoder of the type of encoder `op` can return from b.
Decoded(op, b, i, bit) ==
    CASE op = "set_bool" -> get_bool(b, i, bit)
      [] op = "set_date" -> {get_date(b, i)}
      [] op = "set_real" -> {get_real(b, i)}
      [] op = "set_lreal" -> {get_lreal(b, i)}
      [] OTHER -> {Decode(DecoderOf(op), b, i)}

\* Two calls target byte spans that do not overlap, or are set_bool calls on
\* different bits of one byte.
Independent(a, c) ==
    \/ a.idx + EncoderWidth(a.op) <= c.idx
    \/ c.idx + EncoderWidth(c.op) <= a.idx
    \/ (a.op = "set_bool" /\ c.op = "set_bool" /\ a.idx = c.idx /\ a.bit # c.bit)

\* b with every byte outside the span of call c set to zero.
SpanOnly(c, b) ==
    [p \in DOMAIN b |-> IF p \in (c.idx + 1)..(c.idx + EncoderWidth(c.op)) THEN b[p] ELSE 0]

\* C30 (independence of operations): when two successful encode calls
\* follow one another on non-overlapping spans, or are set_bool calls on
\* different bits of one byte, the calls made in the other order succeed and
\* give the same buffer, and decoding the first field afterwards returns the
\* value encoded there; a successful encode repeated on its result leaves
\* the result as it is; and what an encode leaves in its span is what it
\* leaves there in a buffer that agrees with the current one on that span
\* only.
C30_Independence ==
    /\ \A j \in Calls : \A k \in Calls :
        LET a == hist[j]
            c == hist[k]
        IN  (/\ k = j + 1
             /\ EncoderWidth(a.op) > 0 /\ Ok(a)
             /\ EncoderWidth(c.op) > 0 /\ Ok(c)
             /\ Independent(a, c))
            => /\ Encoded(c.op, a.before, c.idx, c.bit, c.val) # {}
               /\ \A first \in Encoded(c.op, a.before, c.idx, c.bit, c.val) :
                      Encoded(a.op, first, a.idx, a.bit, a.val) = {c.after}
               /\ a.op \in Decodable
                  => Decoded(a.op, c.after, a.idx, a.bit) = {[outcome |-> "ok", ret |-> a.val]}
    /\ \A k \in Calls :
        LET c == hist[k]
            w == EncoderWidth(c.op)
        IN  (w > 0 /\ Ok(c))
            => /\ Encoded(c.op, c.after, c.idx, c.bit, c.val) = {c.after}
               /\ c.op \in Decodable
                  => Decoded(c.op, c.after, c.idx, c.bit) = {[outcome |-> "ok", ret |-> c.val]}
               /\ {Slice(x, c.idx, w) :
                       x \in Encoded(c.op, SpanOnly(c, c.before), c.idx, c.bit, c.val)}
                  = {Slice(c.after, c.idx, w)}

\* C30 witness: set_word has written 0x1234 at the start of the buffer and
\* set_dint has then changed the last four bytes.
C30_Witness ==
    /\ Len(hist) = 2
    /\ hist[1].op = "set_word" /\ Ok(hist[1]) /\ hist[1].idx = 0 /\ hist[1].val = 4660
    /\ hist[2].op = "set_dint" /\ Ok(hist[2]) /\ hist[2].idx = BufLen - 4
    /\ Slice(buf, 0, 2) = <<18, 52>>
    /\ Slice(buf, BufLen - 4, 4) # Slice(hist[1].after, BufLen - 4, 4)

====
